---- MODULE Spec2Model ----
(***************************************************************************)
(* Model of the resource-state convergence and batch-orchestration helpers *)
(* of ocs_ci/helpers/helpers.py:                                           *)
(*   - wait_for_resource_state (the state waiter),                        *)
(*   - create_pods_parallel / create_multiple_pvc_parallel (batch          *)
(*     create-and-wait on a thread pool),                                  *)
(*   - delete_objs_parallel (batch delete on threads),                     *)
(*   - wait_for_resource_count_change / verify_volume_deleted_in_backend   *)
(*     (sampler-based waits),                                              *)
(*   - validate_pv_delete / fetch_used_size (retried operations),          *)
(*   - measure_pvc_creation_time (timing from the provisioner logs).       *)
(* Python values are modelled as records with a "tag" field so that None,  *)
(* False and objects can be compared with each other.                      *)
(***************************************************************************)
EXTENDS Integers, Sequences, FiniteSets, TLC

(***************************************************************************)
(* Bounds of the model.                                                    *)
(***************************************************************************)
\* largest timeout of a single wait, in sampling ticks
MaxTimeout == 2
\* largest number of items submitted to one batch call
MaxItems == 2
\* largest number_of_pvc of create_multiple_pvc_parallel
MaxPvcPerMode == 2
\* number of worker threads of one ThreadPoolExecutor
MaxWorkers == 2
\* largest timeout of a sampler-based wait, in seconds
MaxSampleTimeout == 4
\* largest number of pods or PVCs a listing returns
MaxCount == 2
\* largest pool size "rados df" reports, in quarters of a GB
MaxUsedQuarters == 8
\* largest number of lines of the provisioner log
MaxLogLines == 3
\* largest number of lines the provisioner logs during a bulk measurement
MaxBulkLines == 4
\* longest pvc_objs list, largest pods_for_rwx and longest nodes list of
\* create_pods
MaxPvcs == 2
MaxPodsForRwx == 2
MaxNodes == 2
\* longest resource_type and resource_description, and number of calls of
\* create_unique_resource_name
MaxTypeLen == 16
MaxDescLen == 24
MaxCalls == 2

(***************************************************************************)
(* Python values.                                                          *)
(***************************************************************************)
PyNone == [tag |-> "None", name |-> "", src |-> "", item |-> 0]
PyFalse == [tag |-> "False", name |-> "", src |-> "", item |-> 0]
PyObj(name, src, item) == [tag |-> "obj", name |-> name, src |-> src, item |-> item]

NoExc == [type |-> "none", name |-> "", desc |-> ""]
Exc(type, name, desc) == [type |-> type, name |-> name, desc |-> desc]

(***************************************************************************)
(* constants.DEFAULT_STORAGECLASS_CEPHFS / DEFAULT_STORAGECLASS_RBD: the   *)
(* names of the storage classes defaulted by the platform.                 *)
(***************************************************************************)
DEFAULT_STORAGECLASS_CEPHFS == "ocs-storagecluster-cephfs"
DEFAULT_STORAGECLASS_RBD == "ocs-storagecluster-ceph-rbd"

\* the lifecycle states a caller waits for, and what a probe tick can observe
TargetStates == {"Bound", "Running"}
Observations == {"Pending", "Bound", "Running", "ERR"}
Statuses == {"Pending", "Bound", "Running"}

(***************************************************************************)
(* resource.ocp.wait_for_resource(condition, resource_name, timeout): the  *)
(* sampler-based probe.  obs[i] is what the i-th tick observes ("ERR": the *)
(* tick raises an error that is not transient).  The first tick is always  *)
(* made; a further tick is made while the elapsed ticks are below the      *)
(* timeout.  The result names the outcome and the number of ticks made.    *)
(***************************************************************************)
RECURSIVE SampleLoop(_, _, _, _)
SampleLoop(obs, state, timeout, i) ==
    IF obs[i] = "ERR" THEN [out |-> "error", ticks |-> i]
    ELSE IF obs[i] = state THEN [out |-> "reached", ticks |-> i]
    ELSE IF i >= timeout THEN [out |-> "timeout", ticks |-> i]
    ELSE SampleLoop(obs, state, timeout, i + 1)

wait_for_resource(obs, state, timeout) == SampleLoop(obs, state, timeout, 1)

(***************************************************************************)
(* wait_for_resource_state(resource, state, timeout).                      *)
(*   resource : the handle (a Python value; None has no attribute "name")  *)
(*   probe    : the outcome wait_for_resource has when it is invoked       *)
(*   reloadOK / describeOK : whether resource.reload() / .describe() work  *)
(*   cur      : the status of the resource in the backend at reload time   *)
(* The result records what the caller sees and which collaborator calls    *)
(* were made.                                                              *)
(***************************************************************************)
WaitResult(outcome, val, exc, probeCalls, reloadCalls, describeCalls, timedOut) ==
    [outcome |-> outcome, val |-> val, exc |-> exc, probeCalls |-> probeCalls,
     reloadCalls |-> reloadCalls, describeCalls |-> describeCalls,
     timedOut |-> timedOut]

\* variant: only the CephFS storage class is recognised
IsImmutableCephfsOnly(name) == name = DEFAULT_STORAGECLASS_CEPHFS

IsImmutable(name) ==
    name = DEFAULT_STORAGECLASS_CEPHFS \/ name = DEFAULT_STORAGECLASS_RBD

wait_for_resource_state(resource, probe, reloadOK, describeOK, cur) ==
    IF resource.tag # "obj"
    THEN \* resource.name on None: AttributeError
         WaitResult("raise", PyNone, Exc("AttributeError", "", ""), 0, 0, 0, FALSE)
    ELSE IF IsImmutable(resource.name)
    THEN WaitResult("return", PyNone, NoExc, 0, 0, 0, FALSE)
    ELSE IF probe.out = "reached"
    THEN WaitResult("return", PyNone, NoExc, 1, 0, 0, FALSE)
    ELSE IF probe.out = "error"
    THEN \* not a TimeoutExpiredError: propagates through the try
         WaitResult("raise", PyNone, Exc("ProbeError", "", ""), 1, 0, 0, FALSE)
    ELSE \* except TimeoutExpiredError: reload, describe, raise
         IF ~reloadOK
         THEN WaitResult("raise", PyNone, Exc("CommandFailed", "", ""), 1, 1, 0, TRUE)
         ELSE IF ~describeOK
         THEN WaitResult("raise", PyNone, Exc("CommandFailed", "", ""), 1, 1, 1, TRUE)
         ELSE WaitResult("raise", PyNone,
                         Exc("ResourceWrongStatusException", resource.name, cur),
                         1, 1, 1, TRUE)

(***************************************************************************)
(* State of a single wait_for_resource_state call.                         *)
(***************************************************************************)
VARIABLES w_in, w_out

waitVars == <<w_in, w_out>>

WaitNames == {DEFAULT_STORAGECLASS_CEPHFS, DEFAULT_STORAGECLASS_RBD, "pvc-1", "pod-1"}

ObsSeqs == [1..(MaxTimeout + 1) -> Observations]

WaitIdle == WaitResult("idle", PyNone, NoExc, 0, 0, 0, FALSE)

WaitInit ==
    /\ w_in = [called |-> FALSE]
    /\ w_out = WaitIdle

\* one call of wait_for_resource_state, from entry to return or raise
WaitCall ==
    /\ ~w_in.called
    /\ \E name \in WaitNames, state \in TargetStates, timeout \in 0..MaxTimeout,
       obs \in ObsSeqs, reloadOK \in BOOLEAN, describeOK \in BOOLEAN,
       cur \in Statuses :
        /\ w_in' = [called |-> TRUE, name |-> name, state |-> state,
                    timeout |-> timeout, obs |-> obs, reloadOK |-> reloadOK,
                    describeOK |-> describeOK, cur |-> cur]
        /\ w_out' = wait_for_resource_state(PyObj(name, "", 0),
                        wait_for_resource(obs, state, timeout),
                        reloadOK, describeOK, cur)

\* the caller has consumed the outcome; the next wait starts afresh
WaitExit ==
    /\ w_in.called
    /\ w_in' = [called |-> FALSE]
    /\ w_out' = WaitIdle

(***************************************************************************)
(* Batch create-and-wait: create_pods_parallel and                         *)
(* create_multiple_pvc_parallel.                                           *)
(*                                                                         *)
(* A task is one callable submitted to a ThreadPoolExecutor; its record is *)
(* the future the submitter holds:                                         *)
(*   wave   1 = creation, 2 = state-wait                                   *)
(*   item   index of the submitted item within its wave                    *)
(*   arg    the handle a state-wait is about (PyNone for a creation)       *)
(*   st     "queued" | "running" | "finished"                              *)
(*   status "pending" | "ok" | "raise"      (how the callable ended)       *)
(*   val    the value the callable returned, as a sequence: <<v>> for a    *)
(*          callable returning one value, the list itself for a callable   *)
(*          returning a list.  The PVCs made so far by a running           *)
(*          create_multiple_pvcs are kept here too.                        *)
(*   exc    the exception the callable raised                              *)
(*   made   names of the resources the callable created in the backend     *)
(* b_done is the order in which the creation callables completed.          *)
(***************************************************************************)
VARIABLES b_pc, b_args, b_tasks, b_handles, b_cluster, b_done, b_out

batchVars == <<b_pc, b_args, b_tasks, b_handles, b_cluster, b_done, b_out>>

PvcNames == {"pvc-" \o ToString(i) : i \in 1..MaxItems}
AccessModes == {"ReadWriteOnce", "ReadWriteMany"}

\* sequences without repetition over S, of length 1..n
DistinctSeqs(S, n) ==
    {q \in UNION {[1..k -> S] : k \in 1..n} :
        \A i, j \in DOMAIN q : q[i] = q[j] => i = j}

\* access_modes: a list of different access modes
ModeSeqs == DistinctSeqs(AccessModes, MaxItems)

NewTask(wave, item, arg, val) ==
    [wave |-> wave, item |-> item, arg |-> arg, st |-> "queued",
     status |-> "pending", val |-> val, exc |-> NoExc, made |-> {}]

PodName(i) == "pod-" \o ToString(i)
PvcName(i, j) == "pvc-" \o ToString(i) \o "-" \o ToString(j)

(***************************************************************************)
(* create_pod(...): what one creation callable of create_pods_parallel     *)
(* does.  outcome is how the collaborators answer:                         *)
(*   "created"        create() returned a truthy value                     *)
(*   "create_failed"  create() returned a falsy value: the assert fails    *)
(*   "deploy_failed"  (dc_deployment) the resource was created but the     *)
(*                    deploy pod did not complete: the assert fails        *)
(*   "no_pod_listed"  (dc_deployment) created, but no listed pod carries   *)
(*                    the name: the loop ends and the function returns None*)
(***************************************************************************)
CreateOutcomes(dc) ==
    IF dc THEN {"created", "create_failed", "deploy_failed", "no_pod_listed"}
    ELSE {"created", "create_failed"}

create_pod(name, pvc_name, item, outcome) ==
    CASE outcome = "created" ->
            [status |-> "ok", val |-> <<PyObj(name, pvc_name, item)>>,
             exc |-> NoExc, made |-> {name}]
      [] outcome = "create_failed" ->
            [status |-> "raise", val |-> <<PyNone>>,
             exc |-> Exc("AssertionError", name, ""), made |-> {}]
      [] outcome = "deploy_failed" ->
            [status |-> "raise", val |-> <<PyNone>>,
             exc |-> Exc("AssertionError", name, ""), made |-> {name}]
      [] OTHER ->
            [status |-> "ok", val |-> <<PyNone>>, exc |-> NoExc, made |-> {name}]

(***************************************************************************)
(* create_multiple_pvcs(..., burst=False): one iteration of the list       *)
(* comprehension, i.e. one create_pvc.  acc is the list built so far.      *)
(***************************************************************************)
create_pvc_step(acc, made, item, mode, number_of_pvc, ok) ==
    LET name == PvcName(item, Len(acc) + 1) IN
    IF ~ok
    THEN [st |-> "finished", status |-> "raise", val |-> acc,
          exc |-> Exc("AssertionError", name, ""), made |-> made]
    ELSE LET acc2 == Append(acc, PyObj(name, mode, item)) IN
         [st |-> IF Len(acc2) = number_of_pvc THEN "finished" ELSE "running",
          status |-> IF Len(acc2) = number_of_pvc THEN "ok" ELSE "pending",
          val |-> acc2, exc |-> NoExc, made |-> made \cup {name}]

(***************************************************************************)
(* Futures.                                                                *)
(***************************************************************************)
\* variant: a future counts as done as soon as a worker picked it up
TaskFinishedWhenStarted(t) == t.st \in {"running", "finished"}

\* a future is done: its callable returned or raised
TaskFinished(t) == t.st = "finished"

\* leaving "with ThreadPoolExecutor()": shutdown(wait=True) joins the workers
PoolDrained(tasks, wave) ==
    \A k \in DOMAIN tasks : tasks[k].wave = wave => TaskFinished(tasks[k])

\* [f.result() for f in futs]: blocks until each future is done
ResultsReady(futs) == \A k \in DOMAIN futs : TaskFinished(futs[k])

RECURSIVE FirstRaised(_, _)
FirstRaised(futs, k) ==
    IF k > Len(futs) THEN 0
    ELSE IF futs[k].status = "raise" THEN k
    ELSE FirstRaised(futs, k + 1)

\* variant: futures whose callable raised are left out of the results
JoinResultsSkipRaised(futs) ==
    LET ok == SelectSeq(futs, LAMBDA t : t.status # "raise") IN
    [status |-> "ok", exc |-> NoExc, vals |-> [k \in DOMAIN ok |-> ok[k].val]]

\* the list comprehension over result(): the first future, in list order,
\* whose callable raised re-raises its exception; otherwise the results
JoinResults(futs) ==
    LET r == FirstRaised(futs, 1) IN
    IF r > 0
    THEN [status |-> "raise", exc |-> futs[r].exc, vals |-> <<>>]
    ELSE [status |-> "ok", exc |-> NoExc,
          vals |-> [k \in DOMAIN futs |-> futs[k].val]]

RECURSIVE converge_lists(_)
converge_lists(list_to_converge) ==
    IF list_to_converge = <<>> THEN <<>>
    ELSE Head(list_to_converge) \o converge_lists(Tail(list_to_converge))

\* pod_objs = [f.result() for f in future_pod_objs]: one value per future
PodObjs(vals) == [k \in DOMAIN vals |-> vals[k][1]]

\* "False in [obj.result() for obj in ...]"
FalseIn(vals) == \E k \in DOMAIN vals : vals[k] = <<PyFalse>>

WaveTasks(tasks, wave) == SelectSeq(tasks, LAMBDA t : t.wave = wave)

\* variant: the creation futures in the order in which they completed
CreationFuturesAsCompleted(tasks, done) ==
    LET d == SelectSeq(done, LAMBDA k : tasks[k].wave = 1) IN
    [i \in DOMAIN d |-> tasks[d[i]]]

\* result_lists / future_pod_objs after the first submit loop: the creation
\* futures in the order in which submit() appended them (the order "done"
\* in which the workers completed them plays no part)
CreationFutures(tasks, done) == WaveTasks(tasks, 1)

\* variant: only the creation futures are inspected at the second join
SecondJoinFuturesCreationsOnly(fn, tasks) == WaveTasks(tasks, 1)

\* the futures whose results the second join inspects: create_pods_parallel
\* appends the wave-2 futures to future_pod_objs, which still holds the
\* wave-1 futures; create_multiple_pvc_parallel uses obj_status_list
SecondJoinFutures(fn, tasks) ==
    IF fn = "pods" THEN tasks ELSE WaveTasks(tasks, 2)

\* variant: a failing batch deletes what its creation callables made
BackendAfterRaiseRollback(cluster, tasks) ==
    cluster \ UNION {tasks[k].made : k \in DOMAIN tasks}

\* neither batch function has a cleanup path: when it raises, the backend
\* keeps whatever the creation callables made
BackendAfterRaise(cluster, tasks) == cluster

(***************************************************************************)
(* The batch call: main thread.                                            *)
(***************************************************************************)
NumItems == Len(b_args.items)

BatchIdleArgs == [fn |-> "none", items |-> <<>>, n |-> 0, dc |-> FALSE]
NoOut == [status |-> "none", val |-> <<>>, exc |-> NoExc]

BatchInit ==
    /\ b_pc = "idle"
    /\ b_args = BatchIdleArgs
    /\ b_tasks = <<>>
    /\ b_handles = <<>>
    /\ b_cluster = {}
    /\ b_done = <<>>
    /\ b_out = NoOut

\* create_pods_parallel(pvc_list, ...) is entered
CallCreatePodsParallel ==
    /\ b_pc = "idle"
    /\ \E pvc_list \in DistinctSeqs(PvcNames, MaxItems), dc \in BOOLEAN :
        /\ b_args' = [fn |-> "pods", items |-> pvc_list, n |-> 1, dc |-> dc]
        /\ b_cluster' = {pvc_list[i] : i \in DOMAIN pvc_list}
    /\ b_pc' = "submit1"
    /\ UNCHANGED <<b_tasks, b_handles, b_done, b_out>>

\* create_multiple_pvc_parallel(sc_obj, namespace, number_of_pvc, size,
\* access_modes) is entered
CallCreateMultiplePvcParallel ==
    /\ b_pc = "idle"
    /\ \E access_modes \in ModeSeqs, number_of_pvc \in 1..MaxPvcPerMode :
        b_args' = [fn |-> "pvcs", items |-> access_modes, n |-> number_of_pvc,
                   dc |-> FALSE]
    /\ b_pc' = "submit1"
    /\ UNCHANGED <<b_tasks, b_handles, b_cluster, b_done, b_out>>

\* first "with" block: executor.submit of the next creation callable
SubmitCreate ==
    /\ b_pc = "submit1"
    /\ Len(b_tasks) < NumItems
    /\ b_tasks' = Append(b_tasks,
                    NewTask(1, Len(b_tasks) + 1, PyNone,
                            IF b_args.fn = "pods" THEN <<PyNone>> ELSE <<>>))
    /\ UNCHANGED <<b_pc, b_args, b_handles, b_cluster, b_done, b_out>>

\* end of the first "with" block
ExitPool1 ==
    /\ b_pc = "submit1"
    /\ Len(b_tasks) = NumItems
    /\ PoolDrained(b_tasks, 1)
    /\ b_pc' = "collect1"
    /\ UNCHANGED <<b_args, b_tasks, b_handles, b_cluster, b_done, b_out>>

\* the first join: results of the creation futures, then the handle list
CollectCreated ==
    /\ b_pc = "collect1"
    /\ ResultsReady(CreationFutures(b_tasks, b_done))
    /\ LET joined == JoinResults(CreationFutures(b_tasks, b_done)) IN
        IF joined.status = "raise"
        THEN /\ b_pc' = "raised"
             /\ b_out' = [status |-> "raise", val |-> <<>>, exc |-> joined.exc]
             /\ b_cluster' = BackendAfterRaise(b_cluster, b_tasks)
             /\ UNCHANGED b_handles
        ELSE /\ b_pc' = "submit2"
             /\ b_handles' = IF b_args.fn = "pods" THEN PodObjs(joined.vals)
                             ELSE converge_lists(joined.vals)
             /\ UNCHANGED <<b_out, b_cluster>>
    /\ UNCHANGED <<b_args, b_tasks, b_done>>

NumWaits == Len(WaveTasks(b_tasks, 2))

\* second "with" block: executor.submit(wait_for_resource_state, obj, ...)
SubmitWait ==
    /\ b_pc = "submit2"
    /\ NumWaits < Len(b_handles)
    /\ b_tasks' = Append(b_tasks,
                    NewTask(2, NumWaits + 1, b_handles[NumWaits + 1], <<PyNone>>))
    /\ UNCHANGED <<b_pc, b_args, b_handles, b_cluster, b_done, b_out>>

\* end of the second "with" block
ExitPool2 ==
    /\ b_pc = "submit2"
    /\ NumWaits = Len(b_handles)
    /\ PoolDrained(b_tasks, 2)
    /\ b_pc' = "collect2"
    /\ UNCHANGED <<b_args, b_tasks, b_handles, b_cluster, b_done, b_out>>

\* the second join, the check for False, and the return
CollectWaited ==
    /\ b_pc = "collect2"
    /\ LET futs == SecondJoinFutures(b_args.fn, b_tasks) IN
       /\ ResultsReady(futs)
       /\ LET joined == JoinResults(futs) IN
          IF joined.status = "raise"
          THEN /\ b_pc' = "raised"
               /\ b_out' = [status |-> "raise", val |-> <<>>, exc |-> joined.exc]
               /\ b_cluster' = BackendAfterRaise(b_cluster, b_tasks)
          ELSE IF FalseIn(joined.vals)
          THEN /\ b_pc' = "raised"
               /\ b_out' = [status |-> "raise", val |-> <<>>,
                            exc |-> Exc("TimeoutExpiredError", "", "")]
               /\ b_cluster' = BackendAfterRaise(b_cluster, b_tasks)
          ELSE /\ b_pc' = "returned"
               /\ b_out' = [status |-> "return", val |-> b_handles, exc |-> NoExc]
               /\ UNCHANGED b_cluster
    /\ UNCHANGED <<b_args, b_tasks, b_handles, b_done>>

(***************************************************************************)
(* The worker threads.                                                     *)
(***************************************************************************)
Running(tasks) == {k \in DOMAIN tasks : tasks[k].st = "running"}
Queued(tasks) == {k \in DOMAIN tasks : tasks[k].st = "queued"}

\* variant: a worker is not released when its callable has ended
WorkerFreeNeverReleased(tasks) ==
    Cardinality({k \in DOMAIN tasks : tasks[k].st # "queued"}) < MaxWorkers

\* a worker of the pool is idle: it runs no callable
WorkerFree(tasks) == Cardinality(Running(tasks)) < MaxWorkers

\* a free worker takes the oldest queued callable (the work queue is FIFO)
StartTask ==
    /\ b_pc \in {"submit1", "submit2"}
    /\ Queued(b_tasks) # {}
    /\ WorkerFree(b_tasks)
    /\ LET k == CHOOSE q \in Queued(b_tasks) : \A r \in Queued(b_tasks) : q <= r IN
         b_tasks' = [b_tasks EXCEPT ![k].st = "running"]
    /\ UNCHANGED <<b_pc, b_args, b_handles, b_cluster, b_done, b_out>>

\* a create_pod callable runs to its return or exception
RunCreatePod ==
    /\ b_args.fn = "pods"
    /\ \E k \in Running(b_tasks), outcome \in CreateOutcomes(b_args.dc) :
        /\ b_tasks[k].wave = 1
        /\ LET r == create_pod(PodName(k), b_args.items[k], k, outcome) IN
            /\ b_tasks' = [b_tasks EXCEPT ![k].st = "finished",
                                          ![k].status = r.status,
                                          ![k].val = r.val,
                                          ![k].exc = r.exc,
                                          ![k].made = r.made]
            /\ b_cluster' = b_cluster \cup r.made
        /\ b_done' = Append(b_done, k)
    /\ UNCHANGED <<b_pc, b_args, b_handles, b_out>>

\* a create_multiple_pvcs callable creates its next PVC
RunCreatePvc ==
    /\ b_args.fn = "pvcs"
    /\ \E k \in Running(b_tasks), ok \in BOOLEAN :
        /\ b_tasks[k].wave = 1
        /\ LET t == b_tasks[k]
               r == create_pvc_step(t.val, t.made, k, b_args.items[k], b_args.n, ok)
           IN
            /\ b_tasks' = [b_tasks EXCEPT ![k].st = r.st,
                                          ![k].status = r.status,
                                          ![k].val = r.val,
                                          ![k].exc = r.exc,
                                          ![k].made = r.made]
            /\ b_cluster' = b_cluster \cup r.made
            /\ b_done' = IF r.st = "finished" THEN Append(b_done, k) ELSE b_done
    /\ UNCHANGED <<b_pc, b_args, b_handles, b_out>>

ProbeOuts == {"reached", "timeout", "error"}

\* a wait_for_resource_state callable runs to its return or exception
RunWait ==
    /\ \E k \in Running(b_tasks), out \in ProbeOuts,
          reloadOK \in BOOLEAN, describeOK \in BOOLEAN :
        /\ b_tasks[k].wave = 2
        /\ LET r == wait_for_resource_state(b_tasks[k].arg,
                        [out |-> out, ticks |-> 1], reloadOK, describeOK,
                        "Pending")
           IN b_tasks' = [b_tasks EXCEPT ![k].st = "finished",
                              ![k].status = IF r.outcome = "return" THEN "ok" ELSE "raise",
                              ![k].val = <<r.val>>,
                              ![k].exc = r.exc]
    /\ UNCHANGED <<b_pc, b_args, b_handles, b_cluster, b_done, b_out>>

(***************************************************************************)
(* delete_objs_parallel(obj_list): one threading.Thread per object, each   *)
(* running obj.delete; the threads are started in list order and then      *)
(* joined in list order.                                                   *)
(*   d_threads[k]  the thread of obj_list[k]: st "running" | "done", exc   *)
(*                 the exception obj.delete raised in it (an exception     *)
(*                 ends the thread; the thread object does not keep it for *)
(*                 the joiner)                                             *)
(*   d_calls[k]    number of times obj_list[k].delete was invoked          *)
(*   d_backend     names of the objects present in the backend             *)
(*   d_joined      number of threads the join loop has joined              *)
(***************************************************************************)
VARIABLES d_pc, d_objs, d_threads, d_calls, d_backend, d_joined, d_out

deleteVars == <<d_pc, d_objs, d_threads, d_calls, d_backend, d_joined, d_out>>

PyTrue == [tag |-> "True", name |-> "", src |-> "", item |-> 0]

ObjNames == {"obj-" \o ToString(i) : i \in 1..MaxItems}

DeleteInit ==
    /\ d_pc = "idle"
    /\ d_objs = <<>>
    /\ d_threads = <<>>
    /\ d_calls = <<>>
    /\ d_backend = {}
    /\ d_joined = 0
    /\ d_out = NoOut

\* delete_objs_parallel(obj_list) is entered
CallDeleteObjsParallel ==
    /\ d_pc = "idle"
    /\ \E obj_list \in DistinctSeqs(ObjNames, MaxItems) :
        /\ d_objs' = obj_list
        /\ d_backend' = {obj_list[i] : i \in DOMAIN obj_list}
        /\ d_calls' = [i \in DOMAIN obj_list |-> 0]
    /\ d_pc' = "start"
    /\ UNCHANGED <<d_threads, d_joined, d_out>>

\* first loop: threading.Thread(target=obj.delete); process.start()
StartDeleteThread ==
    /\ d_pc = "start"
    /\ Len(d_threads) < Len(d_objs)
    /\ d_threads' = Append(d_threads, [st |-> "running", exc |-> NoExc])
    /\ d_pc' = IF Len(d_threads) + 1 = Len(d_objs) THEN "join" ELSE "start"
    /\ UNCHANGED <<d_objs, d_calls, d_backend, d_joined, d_out>>

(***************************************************************************)
(* obj.delete() in its thread.  outcome is the backend's answer:           *)
(*   "deleted"      the object is gone when delete returns                 *)
(*   "terminating"  delete returns, the object is still being removed      *)
(*   "failed"       delete raises CommandFailed                            *)
(***************************************************************************)
DeleteOutcomes == {"deleted", "terminating", "failed"}

obj_delete(backend, name, outcome) ==
    [backend |-> IF outcome = "deleted" THEN backend \ {name} ELSE backend,
     exc |-> IF outcome = "failed" THEN Exc("CommandFailed", name, "") ELSE NoExc]

RunDelete ==
    /\ \E k \in DOMAIN d_threads, outcome \in DeleteOutcomes :
        /\ d_threads[k].st = "running"
        /\ LET r == obj_delete(d_backend, d_objs[k], outcome) IN
            /\ d_threads' = [d_threads EXCEPT ![k] = [st |-> "done", exc |-> r.exc]]
            /\ d_backend' = r.backend
        /\ d_calls' = [d_calls EXCEPT ![k] = @ + 1]
    /\ UNCHANGED <<d_pc, d_objs, d_joined, d_out>>

\* the backend finishes the removal of an object whose delete was accepted
BackendRemoves ==
    /\ \E k \in DOMAIN d_threads :
        /\ d_threads[k].st = "done"
        /\ d_threads[k].exc = NoExc
        /\ d_objs[k] \in d_backend
        /\ d_backend' = d_backend \ {d_objs[k]}
    /\ UNCHANGED <<d_pc, d_objs, d_threads, d_calls, d_joined, d_out>>

\* variant: join() returns without waiting for the thread
ThreadJoinedNoWait(t) == TRUE

\* process.join() returns once the thread has terminated
ThreadJoined(t) == t.st = "done"

\* second loop: process.join() of the next thread
JoinDeleteThread ==
    /\ d_pc = "join"
    /\ d_joined < Len(d_threads)
    /\ ThreadJoined(d_threads[d_joined + 1])
    /\ d_joined' = d_joined + 1
    /\ UNCHANGED <<d_pc, d_objs, d_threads, d_calls, d_backend, d_out>>

\* return True
ReturnDeleteObjsParallel ==
    /\ d_pc = "join"
    /\ d_joined = Len(d_threads)
    /\ d_pc' = "returned"
    /\ d_out' = [status |-> "return", val |-> <<PyTrue>>, exc |-> NoExc]
    /\ UNCHANGED <<d_objs, d_threads, d_calls, d_backend, d_joined>>

(***************************************************************************)
(* Sampler-based waits: wait_for_resource_count_change and                 *)
(* verify_volume_deleted_in_backend iterate over                           *)
(* TimeoutSampler(timeout, interval, probe).  The clock of a wait advances *)
(* only by the sleeps of the sampler.                                      *)
(*   s_args     the arguments of the wait                                  *)
(*   s_calls    number of invocations of the probe                         *)
(*   s_sleeps   number of sleeps, s_elapsed the time slept                  *)
(*   s_swallowed number of probe errors the sampler swallowed              *)
(*   s_last     what the backend answered to the last invocation           *)
(*   s_timedout whether the sampler raised TimeoutExpiredError             *)
(***************************************************************************)
VARIABLES s_pc, s_args, s_calls, s_sleeps, s_elapsed, s_swallowed, s_last, s_timedout, s_out

samplerVars == <<s_pc, s_args, s_calls, s_sleeps, s_elapsed, s_swallowed, s_last, s_timedout, s_out>>

\* constants.CEPHBLOCKPOOL / constants.CEPHFILESYSTEM, and any other value
Interfaces == {"CephBlockPool", "CephFileSystem", "other"}

\* interval argument of the sampler in verify_volume_deleted_in_backend
VOLUME_SAMPLE_INTERVAL == 2

Intervals == {1, 2}

Timeouts == (0 - 1) .. MaxSampleTimeout

\* the probe errors the sampler treats as "no result yet"
TransientErrors == {"CommandFailed"}

IsTransient(exc) == exc.type \in TransientErrors

\* variant: the deadline is tested before the first invocation too
SamplerMayProbeChecksFirst(calls, elapsed, timeout) == elapsed < timeout

\* the first invocation is always made, a further one before the deadline
SamplerMayProbe(calls, elapsed, timeout) == calls = 0 \/ elapsed < timeout

\* the result of one invocation of a probe
Sample(status, n, truth, exc) == [status |-> status, n |-> n, truth |-> truth, exc |-> exc]

\* what the backend answers to one invocation
Env(kind, n) == [kind |-> kind, n |-> n]

NoEnv == Env("none", 0)

\* func_to_use(namespace, **func_kwargs): pod.get_all_pods / get_all_pvcs
CountEnvs == {Env("listed", n) : n \in 0 .. MaxCount} \cup {Env("list_failed", 0)}

func_to_use(env) ==
    IF env.kind = "listed"
    THEN Sample("ok", env.n, FALSE, NoExc)
    ELSE Sample("raise", 0, FALSE, Exc("CommandFailed", "", ""))

\* "present": the command succeeds; "rbd_not_found" / "cephfs_not_found":
\* CommandFailed with the error text of a missing image / subvolume;
\* "other_error": CommandFailed with another text; "no_tools_pod":
\* pod.get_ceph_tools_pod() fails
VolumeEnvs == {Env(k, 0) : k \in {"present", "rbd_not_found", "cephfs_not_found", "other_error", "no_tools_pod"}}

valid_error(interface) ==
    IF interface = "CephBlockPool" THEN {"rbd_not_found"}
    ELSE IF interface = "CephFileSystem" THEN {"cephfs_not_found"}
    ELSE {}

\* variant: every CommandFailed means "not present"
is_volume_present_in_backendNoAssert(interface, env) ==
    IF env.kind = "no_tools_pod" THEN Sample("raise", 0, FALSE, Exc("CommandFailed", "", ""))
    ELSE IF env.kind = "present" THEN Sample("ok", 0, TRUE, NoExc)
    ELSE Sample("ok", 0, FALSE, NoExc)

is_volume_present_in_backend(interface, env) ==
    IF env.kind = "no_tools_pod" THEN Sample("raise", 0, FALSE, Exc("CommandFailed", "", ""))
    ELSE IF env.kind = "present" THEN Sample("ok", 0, TRUE, NoExc)
    ELSE IF env.kind \in valid_error(interface) THEN Sample("ok", 0, FALSE, NoExc)
    ELSE Sample("raise", 0, FALSE, Exc("AssertionError", "", env.kind))

\* variant: the difference has to exceed min_difference
CountSatisfiedStrict(args, current_num) ==
    LET count_diff == IF args.change_type = "increase"
                      THEN current_num - args.previous_num
                      ELSE args.previous_num - current_num
    IN  count_diff > args.min_difference

\* the test of wait_for_resource_count_change on one sample
CountSatisfied(args, current_num) ==
    LET count_diff == IF args.change_type = "increase"
                      THEN current_num - args.previous_num
                      ELSE args.previous_num - current_num
    IN  count_diff >= args.min_difference

SamplerArgs(fn, timeout, interval, interface, previous_num, change_type, min_difference) ==
    [fn |-> fn, timeout |-> timeout, interval |-> interval, interface |-> interface,
     previous_num |-> previous_num, change_type |-> change_type,
     min_difference |-> min_difference, caller |-> "test", key |-> "none"]

SamplerIdleArgs == SamplerArgs("none", 0, 1, "other", 0, "increase", 1)

\* variant: no except clause value, the function falls off its end
TimeoutValueNone(fn) == PyNone

\* what the except TimeoutExpiredError clause of the consumer returns
TimeoutValue(fn) == PyFalse

\* timeout of the wait for a new tools pod in wait_for_ct_pod_recovery
CT_RECOVERY_TIMEOUT == 120

\* default interval of wait_for_resource_count_change
DEFAULT_COUNT_INTERVAL == 2

\* what the caller of a sampler-based wait makes of the value of the wait:
\* wait_for_ct_pod_recovery does not look at it and returns True
CallerValue(args, val) == IF args.caller = "wait_for_ct_pod_recovery" THEN PyTrue ELSE val

ProbeEnvs(args) == IF args.fn = "count" THEN CountEnvs ELSE VolumeEnvs

Probe(args, env) ==
    IF args.fn = "count" THEN func_to_use(env)
    ELSE is_volume_present_in_backend(args.interface, env)

\* whether the body of the consumer's for loop leaves the loop on a sample
Satisfied(args, sample) ==
    IF args.fn = "count" THEN CountSatisfied(args, sample.n)
    ELSE ~sample.truth

SamplerInit ==
    /\ s_pc = "idle"
    /\ s_args = SamplerIdleArgs
    /\ s_calls = 0
    /\ s_sleeps = 0
    /\ s_elapsed = 0
    /\ s_swallowed = 0
    /\ s_last = NoEnv
    /\ s_timedout = FALSE
    /\ s_out = NoOut

\* wait_for_resource_count_change(func_to_use, previous_num, namespace, ...)
CallWaitForResourceCountChange ==
    /\ s_pc = "idle"
    /\ \E timeout \in Timeouts, interval \in Intervals, previous_num \in 0 .. MaxCount,
          change_type \in {"increase", "decrease"}, min_difference \in {1, 2} :
        s_args' = SamplerArgs("count", timeout, interval, "other", previous_num,
                              change_type, min_difference)
    /\ s_pc' = "sampling"
    /\ UNCHANGED <<s_calls, s_sleeps, s_elapsed, s_swallowed, s_last, s_timedout, s_out>>

\* verify_volume_deleted_in_backend(interface, image_uuid, pool_name, timeout)
CallVerifyVolumeDeletedInBackend ==
    /\ s_pc = "idle"
    /\ \E timeout \in Timeouts, interface \in Interfaces :
        s_args' = SamplerArgs("volume", timeout, VOLUME_SAMPLE_INTERVAL, interface,
                              0, "increase", 1)
    /\ s_pc' = "sampling"
    /\ UNCHANGED <<s_calls, s_sleeps, s_elapsed, s_swallowed, s_last, s_timedout, s_out>>

\* wait_for_ct_pod_recovery(): get_admin_key() works (True), fails with
\* "connection timed out" (wait for the count of tools pods to rise above
\* 1, then True) or fails otherwise (False)
CallWaitForCtPodRecovery ==
    /\ s_pc = "idle"
    /\ \E key \in {"ok", "connection timed out", "other error"} :
        /\ s_args' = [SamplerArgs("count", CT_RECOVERY_TIMEOUT, DEFAULT_COUNT_INTERVAL, "other",
                                  1, "increase", 1)
                         EXCEPT !.caller = "wait_for_ct_pod_recovery", !.key = key]
        /\ IF key = "connection timed out"
           THEN s_pc' = "sampling" /\ UNCHANGED s_out
           ELSE /\ s_pc' = "returned"
                /\ s_out' = [status |-> "return", exc |-> NoExc,
                             val |-> <<IF key = "ok" THEN PyTrue ELSE PyFalse>>]
    /\ UNCHANGED <<s_calls, s_sleeps, s_elapsed, s_swallowed, s_last, s_timedout>>

\* one tick: the sampler invokes the probe; an error that is not transient
\* leaves the wait; a result is handed to the loop body, which may return;
\* otherwise the sampler sleeps, unless the deadline has been reached
SampleTick ==
    /\ s_pc = "sampling"
    /\ SamplerMayProbe(s_calls, s_elapsed, s_args.timeout)
    /\ \E env \in ProbeEnvs(s_args) :
        LET sample == Probe(s_args, env) IN
        /\ s_last' = env
        /\ s_calls' = s_calls + 1
        /\ IF sample.status = "raise" /\ ~IsTransient(sample.exc)
           THEN /\ s_pc' = "raised"
                /\ s_out' = [status |-> "raise", val |-> <<>>, exc |-> sample.exc]
                /\ UNCHANGED <<s_sleeps, s_elapsed, s_swallowed>>
           ELSE IF sample.status = "ok" /\ Satisfied(s_args, sample)
           THEN /\ s_pc' = "returned"
                /\ s_out' = [status |-> "return", val |-> <<CallerValue(s_args, PyTrue)>>, exc |-> NoExc]
                /\ UNCHANGED <<s_sleeps, s_elapsed, s_swallowed>>
           ELSE /\ s_pc' = "sampling"
                /\ s_swallowed' = IF sample.status = "raise" THEN s_swallowed + 1 ELSE s_swallowed
                /\ IF s_elapsed >= s_args.timeout
                   THEN UNCHANGED <<s_sleeps, s_elapsed>>
                   ELSE /\ s_sleeps' = s_sleeps + 1
                        /\ s_elapsed' = s_elapsed + s_args.interval
                /\ UNCHANGED s_out
    /\ UNCHANGED <<s_args, s_timedout>>

\* the sampler raises TimeoutExpiredError; the consumer's except clause
\* returns False, in verify_volume_deleted_in_backend after two diagnostic
\* ceph commands that may fail
SampleTimeout ==
    /\ s_pc = "sampling"
    /\ ~SamplerMayProbe(s_calls, s_elapsed, s_args.timeout)
    /\ s_timedout' = TRUE
    /\ \E diagOK \in BOOLEAN :
        IF s_args.fn = "volume" /\ ~diagOK
        THEN /\ s_pc' = "raised"
             /\ s_out' = [status |-> "raise", val |-> <<>>, exc |-> Exc("CommandFailed", "", "")]
        ELSE /\ s_pc' = "returned"
             /\ s_out' = [status |-> "return", val |-> <<CallerValue(s_args, TimeoutValue(s_args.fn))>>, exc |-> NoExc]
    /\ UNCHANGED <<s_args, s_calls, s_sleeps, s_elapsed, s_swallowed, s_last>>

\* the caller has consumed the outcome; the next wait starts afresh
SampleExit ==
    /\ s_pc \in {"returned", "raised"}
    /\ s_pc' = "idle"
    /\ s_args' = SamplerIdleArgs
    /\ s_calls' = 0
    /\ s_sleeps' = 0
    /\ s_elapsed' = 0
    /\ s_swallowed' = 0
    /\ s_last' = NoEnv
    /\ s_timedout' = FALSE
    /\ s_out' = NoOut

(***************************************************************************)
(* Retried operations: validate_pv_delete and fetch_used_size are wrapped  *)
(* by the retry decorator.  One RetryAttempt is one invocation of the      *)
(* wrapped function together with what the decorator does with its         *)
(* outcome.                                                                *)
(*   r_attempts number of invocations of the wrapped function              *)
(*   r_sleeps   number of sleeps, r_slept the seconds slept                *)
(*   r_delay    the delay of the next sleep                                *)
(*   r_last     what the backend answered to the last invocation           *)
(***************************************************************************)
VARIABLES r_pc, r_fn, r_exp, r_attempts, r_sleeps, r_slept, r_delay, r_last, r_out

retryVars == <<r_pc, r_fn, r_exp, r_attempts, r_sleeps, r_slept, r_delay, r_last, r_out>>

PyNum(n) == [tag |-> "num", name |-> "", src |-> "", item |-> n]

\* truth value of a Python value
Truthy(v) == v.tag \in {"True", "obj"} \/ (v.tag = "num" /\ v.item # 0)

\* arguments of the decorators of validate_pv_delete and fetch_used_size
RETRY_TRIES == 20

RETRY_DELAY == 10

RETRY_BACKOFF == 1

\* variant: the defaults of the decorator instead of the given arguments
RetryParamsDefaults(fn) ==
    [exc |-> IF fn = "validate_pv_delete" THEN "AssertionError" ELSE "UnexpectedBehaviour",
     tries |-> 4, delay |-> 3, backoff |-> 2]

\* @retry(CommandFailed, tries=10, delay=30, backoff=1)
CLI_RETRY_TRIES == 10

CLI_RETRY_DELAY == 30

RetryParams(fn) ==
    IF fn = "run_cmd_verify_cli_output"
    THEN [exc |-> "CommandFailed", tries |-> CLI_RETRY_TRIES, delay |-> CLI_RETRY_DELAY,
          backoff |-> RETRY_BACKOFF]
    ELSE
    [exc |-> IF fn = "validate_pv_delete" THEN "AssertionError" ELSE "UnexpectedBehaviour",
     tries |-> RETRY_TRIES, delay |-> RETRY_DELAY, backoff |-> RETRY_BACKOFF]

\* what the decorator does with the outcome of invocation number attempts
RetryDecision(params, attempts, result) ==
    IF result.status = "return" THEN "return"
    ELSE IF result.exc.type # params.exc THEN "raise"
    ELSE IF attempts < params.tries THEN "retry"
    ELSE "raise"

Result(status, val, exc) == [status |-> status, val |-> val, exc |-> exc]

\* ocp_pv_obj.get(resource_name=pv_name): "present" a non-empty document,
\* "empty" a falsy value, "not_found" CommandFailed
PvEnvs == {Env(k, 0) : k \in {"present", "empty", "not_found"}}

\* variant: without the except clause
validate_pv_deleteNoExcept(call, env) ==
    IF env.kind = "present"
    THEN Result("raise", <<>>, Exc("AssertionError", "pv", ToString(call)))
    ELSE IF env.kind = "not_found"
    THEN Result("raise", <<>>, Exc("CommandFailed", "pv", ToString(call)))
    ELSE Result("return", <<PyNone>>, NoExc)

\* validate_pv_delete(pv_name); call identifies the exception object made
validate_pv_delete(call, env) ==
    IF env.kind = "present"
    THEN Result("raise", <<>>, Exc("AssertionError", "pv", ToString(call)))
    ELSE IF env.kind = "not_found"
    THEN Result("return", <<PyTrue>>, NoExc)
    ELSE Result("return", <<PyNone>>, NoExc)

\* the pool sizes are given in quarters of a GB
QuartersPerGB == 4

\* float(format(size_bytes / constants.GB, ".4f")), in units of 0.0001 GB
used_in_gb(quarters) == (quarters * 10000) \div QuartersPerGB

\* "rados df": "size" the command answers with a pool size, "failed" the
\* tools pod lookup or the command raises CommandFailed
SizeEnvs == {Env("size", q) : q \in 0 .. MaxUsedQuarters} \cup {Env("failed", 0)}

ExpVals == {PyNone, PyNum(0), PyNum(used_in_gb(MaxUsedQuarters))}

Abs(x) == IF x < 0 THEN 0 - x ELSE x

\* variant: a failed command is reported as UnexpectedBehaviour
fetch_used_sizeWrapsCommandFailed(exp_val, call, env) ==
    IF env.kind = "failed"
    THEN Result("raise", <<>>, Exc("UnexpectedBehaviour", "", ToString(call)))
    ELSE IF Truthy(exp_val) /\ Abs(exp_val.item - used_in_gb(env.n)) > 15000
    THEN Result("raise", <<>>, Exc("UnexpectedBehaviour", "", ToString(call)))
    ELSE Result("return", <<PyNum(used_in_gb(env.n))>>, NoExc)

\* fetch_used_size(cbp_name, exp_val); exp_val in units of 0.0001 GB
fetch_used_size(exp_val, call, env) ==
    IF env.kind = "failed"
    THEN Result("raise", <<>>, Exc("CommandFailed", "", ToString(call)))
    ELSE IF Truthy(exp_val) /\ Abs(exp_val.item - used_in_gb(env.n)) > 15000
    THEN Result("raise", <<>>, Exc("UnexpectedBehaviour", "", ToString(call)))
    ELSE Result("return", <<PyNum(used_in_gb(env.n))>>, NoExc)

\* run_cmd(cmd): "all_found" the output holds every expected string,
\* "missing" the command succeeds and an expected string is not in its
\* output, "failed" the tools pod lookup or the command raises CommandFailed
CliEnvs == {Env(k, 0) : k \in {"all_found", "missing", "failed"}}

\* variant: a missing string is reported as a failed command
run_cmd_verify_cli_outputRaisesOnMissing(call, env) ==
    IF env.kind \in {"failed", "missing"}
    THEN Result("raise", <<>>, Exc("CommandFailed", "", ToString(call)))
    ELSE Result("return", <<PyTrue>>, NoExc)

\* run_cmd_verify_cli_output(cmd, expected_output_lst, ...)
run_cmd_verify_cli_output(call, env) ==
    IF env.kind = "failed"
    THEN Result("raise", <<>>, Exc("CommandFailed", "", ToString(call)))
    ELSE IF env.kind = "missing"
    THEN Result("return", <<PyFalse>>, NoExc)
    ELSE Result("return", <<PyTrue>>, NoExc)

RetryEnvs(fn) ==
    IF fn = "validate_pv_delete" THEN PvEnvs
    ELSE IF fn = "run_cmd_verify_cli_output" THEN CliEnvs
    ELSE SizeEnvs

Invoke(fn, exp_val, call, env) ==
    IF fn = "validate_pv_delete" THEN validate_pv_delete(call, env)
    ELSE IF fn = "run_cmd_verify_cli_output" THEN run_cmd_verify_cli_output(call, env)
    ELSE fetch_used_size(exp_val, call, env)

RetryInit ==
    /\ r_pc = "idle"
    /\ r_fn = "none"
    /\ r_exp = PyNone
    /\ r_attempts = 0
    /\ r_sleeps = 0
    /\ r_slept = 0
    /\ r_delay = 0
    /\ r_last = NoEnv
    /\ r_out = NoOut

\* the decorated validate_pv_delete(pv_name) is called
CallValidatePvDelete ==
    /\ r_pc = "idle"
    /\ r_pc' = "running"
    /\ r_fn' = "validate_pv_delete"
    /\ r_delay' = RetryParams("validate_pv_delete").delay
    /\ UNCHANGED <<r_exp, r_attempts, r_sleeps, r_slept, r_last, r_out>>

\* the decorated fetch_used_size(cbp_name, exp_val) is called
CallFetchUsedSize ==
    /\ r_pc = "idle"
    /\ r_pc' = "running"
    /\ r_fn' = "fetch_used_size"
    /\ \E exp_val \in ExpVals : r_exp' = exp_val
    /\ r_delay' = RetryParams("fetch_used_size").delay
    /\ UNCHANGED <<r_attempts, r_sleeps, r_slept, r_last, r_out>>

\* the decorated run_cmd_verify_cli_output(cmd, expected_output_lst) is
\* called
CallRunCmdVerifyCliOutput ==
    /\ r_pc = "idle"
    /\ r_pc' = "running"
    /\ r_fn' = "run_cmd_verify_cli_output"
    /\ r_delay' = RetryParams("run_cmd_verify_cli_output").delay
    /\ UNCHANGED <<r_exp, r_attempts, r_sleeps, r_slept, r_last, r_out>>

\* one invocation of the wrapped function and the decorator's reaction
RetryAttempt ==
    /\ r_pc = "running"
    /\ \E env \in RetryEnvs(r_fn) :
        LET result == Invoke(r_fn, r_exp, r_attempts + 1, env)
            decision == RetryDecision(RetryParams(r_fn), r_attempts + 1, result)
        IN
        /\ r_last' = env
        /\ r_attempts' = r_attempts + 1
        /\ IF decision = "retry"
           THEN /\ r_sleeps' = r_sleeps + 1
                /\ r_slept' = r_slept + r_delay
                /\ r_delay' = r_delay * RetryParams(r_fn).backoff
                /\ UNCHANGED <<r_pc, r_out>>
           ELSE /\ r_pc' = IF decision = "return" THEN "returned" ELSE "raised"
                /\ r_out' = result
                /\ UNCHANGED <<r_sleeps, r_slept, r_delay>>
    /\ UNCHANGED <<r_fn, r_exp>>

\* the caller has consumed the outcome
RetryExit ==
    /\ r_pc \in {"returned", "raised"}
    /\ r_pc' = "idle"
    /\ r_fn' = "none"
    /\ r_exp' = PyNone
    /\ r_attempts' = 0
    /\ r_sleeps' = 0
    /\ r_slept' = 0
    /\ r_delay' = 0
    /\ r_last' = NoEnv
    /\ r_out' = NoOut

(***************************************************************************)
(* PVC creation time from the provisioner logs: get_start_creation_time,   *)
(* get_end_creation_time and measure_pvc_creation_time.                    *)
(*                                                                         *)
(* A string is a sequence of one-character strings.  The log is kept as    *)
(* the list of its events; Render gives the text of the line of an event   *)
(* in the timestamp style of the log:                                      *)
(*   "klog"    I0105 10:00:05.000000 ... provision ... pvc-a ... started   *)
(*   "syslog"  Jan  5 10:00:05.000000 ... provision ... pvc-a ... started  *)
(***************************************************************************)
VARIABLES t_pc, t_style, t_events, t_name, t_start, t_out

timingVars == <<t_pc, t_style, t_events, t_name, t_start, t_out>>

Digits == <<"0", "1", "2", "3", "4", "5", "6", "7", "8", "9">>

IsDigit(c) == \E i \in DOMAIN Digits : Digits[i] = c

DigitVal(c) == (CHOOSE i \in DOMAIN Digits : Digits[i] = c) - 1

AllDigits(s) == \A i \in DOMAIN s : IsDigit(s[i])

RECURSIVE Num(_)
Num(s) == IF s = <<>> THEN 0 ELSE 10 * Num(SubSeq(s, 1, Len(s) - 1)) + DigitVal(s[Len(s)])

\* DATE_TIME_FORMAT = "%Y I%m%d %H:%M:%S.%f"
DATE_TIME_FORMAT ==
    <<"%", "Y", " ", "I", "%", "m", "%", "d", " ", "%", "H", ":", "%", "M", ":", "%", "S", ".", "%", "f">>

\* str.split(sep)
RECURSIVE SplitFrom(_, _, _, _)
SplitFrom(s, sep, i, cur) ==
    IF i > Len(s) THEN <<cur>>
    ELSE IF s[i] = sep THEN <<cur>> \o SplitFrom(s, sep, i + 1, <<>>)
    ELSE SplitFrom(s, sep, i + 1, Append(cur, s[i]))

split(s, sep) == SplitFrom(s, sep, 1, <<>>)

\* list[a:b] for 0 <= a <= b
Slice(l, a, b) == SubSeq(l, a + 1, IF b < Len(l) THEN b ELSE Len(l))

\* sep.join(parts)
RECURSIVE join(_, _)
join(sep, parts) ==
    IF parts = <<>> THEN <<>>
    ELSE IF Len(parts) = 1 THEN parts[1]
    ELSE parts[1] \o sep \o join(sep, Tail(parts))

\* least index >= from at which the word w starts in s, 0 if there is none
RECURSIVE Find(_, _, _)
Find(s, w, from) ==
    IF from + Len(w) - 1 > Len(s) THEN 0
    ELSE IF SubSeq(s, from, from + Len(w) - 1) = w THEN from
    ELSE Find(s, w, from + 1)

\* re.search(f"provision.*{pvc_name}.*{operation}", line)
re_search(w1, w2, w3, line) ==
    LET p1 == Find(line, w1, 1)
        p2 == IF p1 = 0 THEN 0 ELSE Find(line, w2, p1 + Len(w1))
        p3 == IF p2 = 0 THEN 0 ELSE Find(line, w3, p2 + Len(w2))
    IN  p3 # 0

\* number of characters a directive of the format reads (klog pads its fields)
Width(d) == IF d = "Y" THEN 4 ELSE IF d = "f" THEN 6 ELSE 2

NoDatetime == [ok |-> FALSE, Y |-> 0, m |-> 0, d |-> 0, H |-> 0, M |-> 0, S |-> 0, f |-> 0]

RECURSIVE ParseFrom(_, _, _, _, _)
ParseFrom(fmt, s, i, j, acc) ==
    IF i > Len(fmt) THEN (IF j > Len(s) THEN [acc EXCEPT !.ok = TRUE] ELSE NoDatetime)
    ELSE IF fmt[i] = "%"
    THEN LET d == fmt[i + 1]
             w == Width(d)
         IN  IF j + w - 1 <= Len(s) /\ AllDigits(SubSeq(s, j, j + w - 1))
             THEN ParseFrom(fmt, s, i + 2, j + w, [acc EXCEPT ![d] = Num(SubSeq(s, j, j + w - 1))])
             ELSE NoDatetime
    ELSE IF j <= Len(s) /\ s[j] = fmt[i] THEN ParseFrom(fmt, s, i + 1, j + 1, acc)
    ELSE NoDatetime

\* datetime.datetime.strptime(s, fmt): a datetime, or ok = FALSE for ValueError
strptime(s, fmt) ==
    LET dt == ParseFrom(fmt, s, 1, 1, NoDatetime)
    IN  IF dt.ok /\ dt.m \in 1 .. 12 /\ dt.d \in 1 .. 31 /\ dt.H <= 23 /\ dt.M <= 59 /\ dt.S <= 61
        THEN dt ELSE NoDatetime

IsLeap(y) == (y % 4 = 0 /\ y % 100 # 0) \/ y % 400 = 0

DaysInMonth(y, m) ==
    IF m = 2 THEN (IF IsLeap(y) THEN 29 ELSE 28)
    ELSE IF m \in {4, 6, 9, 11} THEN 30 ELSE 31

RECURSIVE DaysBefore(_, _)
DaysBefore(y, m) == IF m <= 1 THEN 0 ELSE DaysBefore(y, m - 1) + DaysInMonth(y, m - 1)

\* seconds since the start of the year of a datetime
SecondOfYear(dt) == ((DaysBefore(dt.Y, dt.m) + dt.d - 1) * 24 + dt.H) * 3600 + dt.M * 60 + dt.S

\* a float number of seconds: item whole seconds (floor), us microseconds
PySeconds(s, us) == [tag |-> "float", name |-> "", src |-> "", item |-> s, us |-> us]

\* (end - start).total_seconds() for datetimes of one year
total_seconds(end, start) ==
    LET s == SecondOfYear(end) - SecondOfYear(start)
        us == end.f - start.f
    IN  IF us < 0 THEN PySeconds(s - 1, us + 1000000) ELSE PySeconds(s, us)

W_provision == <<"p", "r", "o", "v", "i", "s", "i", "o", "n">>

W_started == <<"s", "t", "a", "r", "t", "e", "d">>

W_succeeded == <<"s", "u", "c", "c", "e", "e", "d", "e", "d">>

W_dots == <<".", ".", ".">>

SubjectNames == {"pvc-a", "pvc-b"}

PvNames == {"pvc-a", "pvc-ab", "xpvc-a"}

PvChars(name) ==
    IF name = "pvc-a" THEN <<"p", "v", "c", "-", "a">>
    ELSE IF name = "pvc-ab" THEN <<"p", "v", "c", "-", "a", "b">>
    ELSE <<"x", "p", "v", "c", "-", "a">>

\* the characters of a PVC or PV name
NameChars(name) == IF name = "pvc-b" THEN <<"p", "v", "c", "-", "b">> ELSE PvChars(name)

OpChars(op) == IF op = "started" THEN W_started ELSE W_succeeded

LogStyles == {"klog", "syslog"}

LogSeconds == {0, 5}

\* an event of the log: at 10:00:0<sec> the provision of <name> <op>
LogEvent(sec, name, op) == [sec |-> sec, name |-> name, op |-> op]

LogEvents == {LogEvent(sec, name, op) : sec \in LogSeconds, name \in SubjectNames, op \in {"started", "succeeded"}}

StampChars(style) ==
    IF style = "klog" THEN <<"I", "0", "1", "0", "5">> ELSE <<"J", "a", "n", " ", " ", "5">>

TimeChars(sec) ==
    <<"1", "0", ":", "0", "0", ":", "0", Digits[sec + 1], ".", "0", "0", "0", "0", "0", "0">>

\* the text of the log line of an event
Render(style, e) ==
    StampChars(style) \o <<" ">> \o TimeChars(e.sec) \o <<" ">> \o W_dots \o <<" ">>
        \o W_provision \o <<" ">> \o W_dots \o <<" ">> \o NameChars(e.name) \o <<" ">>
        \o W_dots \o <<" ">> \o OpChars(e.op)

\* logs.split("\n")
LogLines(style, events) == [i \in DOMAIN events |-> Render(style, events[i])]

\* str(datetime.datetime.now().year)
Years == {2026}

YearChars(y) ==
    <<Digits[((y \div 1000) % 10) + 1], Digits[((y \div 100) % 10) + 1],
      Digits[((y \div 10) % 10) + 1], Digits[(y % 10) + 1]>>

\* [i for i in logs if re.search(f"provision.*{pvc_name}.*{operation}", i)]
Matching(logs, pvc_name, operation) ==
    SelectSeq(logs, LAMBDA line : re_search(W_provision, NameChars(pvc_name), OpChars(operation), line))

\* f"{this_year} {mon_day}" parsed, for a matching line
StampOf(this_year, line) ==
    LET mon_day == join(<<" ">>, Slice(split(line, " "), 0, 2))
    IN  strptime(YearChars(this_year) \o <<" ">> \o mon_day, DATE_TIME_FORMAT)

\* get_start_creation_time(interface, pvc_name)
get_start_creation_time(this_year, logs, pvc_name) ==
    LET start == Matching(logs, pvc_name, "started")
    IN  IF start = <<>> THEN Result("raise", <<>>, Exc("IndexError", pvc_name, "started"))
        ELSE LET dt == StampOf(this_year, start[1])
             IN  IF dt.ok THEN Result("return", <<dt>>, NoExc)
                 ELSE Result("raise", <<>>, Exc("ValueError", pvc_name, "started"))

\* variant: the first "succeeded" line instead of the last one
EndLineFirst(end) == end[1]

\* end[-1]
EndLine(end) == end[Len(end)]

\* get_end_creation_time(interface, pvc_name)
get_end_creation_time(this_year, logs, pvc_name) ==
    LET end == Matching(logs, pvc_name, "succeeded")
    IN  IF end = <<>> THEN Result("raise", <<>>, Exc("IndexError", pvc_name, "succeeded"))
        ELSE LET dt == StampOf(this_year, EndLine(end))
             IN  IF dt.ok THEN Result("return", <<dt>>, NoExc)
                 ELSE Result("raise", <<>>, Exc("ValueError", pvc_name, "succeeded"))

\* sequences over S of length 0..n
RECURSIVE SeqsUpTo(_, _)
SeqsUpTo(S, n) ==
    IF n = 0 THEN {<<>>}
    ELSE LET shorter == SeqsUpTo(S, n - 1)
         IN  shorter \cup {Append(q, x) : q \in {r \in shorter : Len(r) = n - 1}, x \in S}

TimingInit ==
    /\ t_pc = "idle"
    /\ t_style = "klog"
    /\ t_events = <<>>
    /\ t_name = "pvc-a"
    /\ t_start = NoDatetime
    /\ t_out = NoOut

\* measure_pvc_creation_time(interface, pvc_name) is entered; the
\* provisioner has logged some events
CallMeasurePvcCreationTime ==
    /\ t_pc = "idle"
    /\ \E style \in LogStyles, events \in SeqsUpTo(LogEvents, MaxLogLines), pvc_name \in SubjectNames :
        /\ t_style' = style
        /\ t_events' = events
        /\ t_name' = pvc_name
    /\ t_pc' = "called"
    /\ UNCHANGED <<t_start, t_out>>

\* the provisioner logs one more event while the measurement runs
LogAppend ==
    /\ t_pc \in {"called", "started"}
    /\ Len(t_events) < MaxLogLines
    /\ \E e \in LogEvents : t_events' = Append(t_events, e)
    /\ UNCHANGED <<t_pc, t_style, t_name, t_start, t_out>>

\* start = get_start_creation_time(interface=interface, pvc_name=pvc_name)
GetStartCreationTime ==
    /\ t_pc = "called"
    /\ \E this_year \in Years :
        LET r == get_start_creation_time(this_year, LogLines(t_style, t_events), t_name) IN
        IF r.status = "return"
        THEN /\ t_pc' = "started"
             /\ t_start' = r.val[1]
             /\ UNCHANGED t_out
        ELSE /\ t_pc' = "raised"
             /\ t_out' = r
             /\ UNCHANGED t_start
    /\ UNCHANGED <<t_style, t_events, t_name>>

\* end = get_end_creation_time(...); total = end - start;
\* return total.total_seconds()
GetEndCreationTime ==
    /\ t_pc = "started"
    /\ \E this_year \in Years :
        LET r == get_end_creation_time(this_year, LogLines(t_style, t_events), t_name) IN
        IF r.status = "return"
        THEN /\ t_pc' = "returned"
             /\ t_out' = Result("return", <<total_seconds(r.val[1], t_start)>>, NoExc)
        ELSE /\ t_pc' = "raised"
             /\ t_out' = r
    /\ UNCHANGED <<t_style, t_events, t_name, t_start>>

\* the caller has consumed the outcome
TimingExit ==
    /\ t_pc \in {"returned", "raised"}
    /\ t_pc' = "idle"
    /\ t_style' = "klog"
    /\ t_events' = <<>>
    /\ t_name' = "pvc-a"
    /\ t_start' = NoDatetime
    /\ t_out' = NoOut

(***************************************************************************)
(* delete_volume_in_backend(img_uuid, pool_name).                          *)
(*   pool   what get_pool_cr finds: "none" or the kind of the pool CR      *)
(*   env1   the backend's answer to the presence check before the delete   *)
(*   del    the backend's answer to the delete command                     *)
(*   env2   the backend's answer to the presence check after the delete    *)
(* The result records the outcome and the number of delete commands sent.  *)
(***************************************************************************)
VARIABLES v_in, v_out

volumeVars == <<v_in, v_out>>

PoolKinds == {"none", "CephBlockPool", "CephFilesystem"}

\* "deleted": the command succeeds; "rbd_no_such_file" / "cephfs_not_found":
\* CommandFailed with the text of a missing image / subvolume;
\* "other_error": CommandFailed with another text; "no_tools_pod":
\* pod.get_ceph_tools_pod() fails
DeleteEnvs == {Env(k, 0) : k \in {"deleted", "rbd_no_such_file", "cephfs_not_found", "other_error", "no_tools_pod"}}

delete_valid_error(interface) ==
    IF interface = "CephBlockPool" THEN {"rbd_no_such_file"}
    ELSE IF interface = "CephFileSystem" THEN {"cephfs_not_found"}
    ELSE {}

VolumeResult(status, val, exc, deletes) ==
    [status |-> status, val |-> val, exc |-> exc, deletes |-> deletes]

\* variant: the check after the delete is not looked at
DeletedAfterAssumed(verify) == TRUE

\* "if not verify_img_delete_result"
DeletedAfter(verify) == ~verify.truth

delete_volume_in_backend(pool, env1, del, env2) ==
    IF pool = "none" THEN VolumeResult("return", <<PyFalse>>, NoExc, 0)
    ELSE
    LET interface == IF pool = "CephFilesystem" THEN "CephFileSystem" ELSE pool
        image_present_results == is_volume_present_in_backend(interface, env1)
        verify_img_delete_result == is_volume_present_in_backend(interface, env2)
    IN  IF image_present_results.status = "raise"
        THEN VolumeResult("raise", <<>>, image_present_results.exc, 0)
        ELSE IF ~image_present_results.truth
        THEN VolumeResult("return", <<PyFalse>>, NoExc, 0)
        ELSE IF del.kind = "no_tools_pod"
        THEN VolumeResult("raise", <<>>, Exc("CommandFailed", "", ""), 0)
        ELSE IF del.kind \in delete_valid_error(interface)
        THEN VolumeResult("return", <<PyFalse>>, NoExc, 1)
        ELSE IF verify_img_delete_result.status = "raise"
        THEN VolumeResult("raise", <<>>, verify_img_delete_result.exc, 1)
        ELSE IF DeletedAfter(verify_img_delete_result)
        THEN VolumeResult("return", <<PyTrue>>, NoExc, 1)
        ELSE VolumeResult("return", <<PyFalse>>, NoExc, 1)

VolumeIdle == [called |-> FALSE]

VolumeInit ==
    /\ v_in = VolumeIdle
    /\ v_out = VolumeResult("idle", <<>>, NoExc, 0)

\* one call of delete_volume_in_backend, from entry to return or raise
VolumeCall ==
    /\ ~v_in.called
    /\ \E pool \in PoolKinds, env1 \in VolumeEnvs, del \in DeleteEnvs, env2 \in VolumeEnvs :
        /\ v_in' = [called |-> TRUE, pool |-> pool, env1 |-> env1, del |-> del, env2 |-> env2]
        /\ v_out' = delete_volume_in_backend(pool, env1, del, env2)

\* the caller has consumed the outcome
VolumeExit ==
    /\ v_in.called
    /\ v_in' = VolumeIdle
    /\ v_out' = VolumeResult("idle", <<>>, NoExc, 0)

(***************************************************************************)
(* The single-shot log lookups: get_provision_time,                        *)
(* get_start_creation_time, get_end_creation_time,                         *)
(* get_start_deletion_time and get_end_deletion_time.  Each call fetches   *)
(* the provisioner logs once and answers from them.                        *)
(*   l_in    the call: function, log style, logged events, names, status   *)
(*   l_out   its outcome                                                   *)
(***************************************************************************)
VARIABLES l_in, l_out

lookupVars == <<l_in, l_out>>

\* characters of the date strings, in code point order
CharTable == <<" ", ".", "0", "1", "2", "3", "4", "5", "6", "7", "8", "9", ":", "I", "J", "a", "n">>

Ord(c) == CHOOSE i \in DOMAIN CharTable : CharTable[i] = c

\* s <= t for Python strings
RECURSIVE StrLeq(_, _)
StrLeq(s, t) ==
    IF s = <<>> THEN TRUE
    ELSE IF t = <<>> THEN FALSE
    ELSE IF s[1] = t[1] THEN StrLeq(Tail(s), Tail(t))
    ELSE Ord(s[1]) < Ord(t[1])

RECURSIVE Insert(_, _)
Insert(x, l) ==
    IF l = <<>> THEN <<x>>
    ELSE IF StrLeq(x, l[1]) THEN <<x>> \o l
    ELSE <<l[1]>> \o Insert(x, Tail(l))

\* sorted(all_stats)
RECURSIVE sorted(_)
sorted(l) == IF l = <<>> THEN <<>> ELSE Insert(l[1], sorted(Tail(l)))

\* the events the creation lookups are tried on: pvc-a is provisioned from
\* second 0 or 1 to second 2 or 5, pvc-b from second 1 to second 5
CreationEvents ==
    {LogEvent(0, "pvc-a", "started"), LogEvent(1, "pvc-a", "started"),
     LogEvent(2, "pvc-a", "succeeded"), LogEvent(5, "pvc-a", "succeeded"),
     LogEvent(1, "pvc-b", "started"), LogEvent(5, "pvc-b", "succeeded")}

\* the events the deletion lookups are tried on
DeletionEvents ==
    {LogEvent(0, "pvc-a", "started"), LogEvent(5, "pvc-a", "succeeded"),
     LogEvent(1, "pvc-ab", "started"), LogEvent(2, "pvc-ab", "succeeded"),
     LogEvent(1, "xpvc-a", "started"), LogEvent(2, "xpvc-a", "succeeded")}

\* the logs a lookup may fetch: up to MaxLogLines lines, each logged once
LogSnapshots(S) == {<<>>} \cup DistinctSeqs(S, MaxLogLines)

W_delete == <<"d", "e", "l", "e", "t", "e">>

\* the text of the log line of a deletion event: ... delete "<pv>": <op>
RenderDelete(style, e) ==
    StampChars(style) \o <<" ">> \o TimeChars(e.sec) \o <<" ">> \o W_dots \o <<" ">>
        \o W_delete \o <<" ", "\"">> \o PvChars(e.name) \o <<"\"", ":", " ">> \o OpChars(e.op)

DeletionLogLines(style, events) == [i \in DOMAIN events |-> RenderDelete(style, events[i])]

\* variant: the name is looked for anywhere after the word delete
delete_re_searchLoose(pv_name, operation, line) ==
    re_search(W_delete, PvChars(pv_name), OpChars(operation), line)

\* re.search(f'delete "{pv_name}": started', line)
delete_re_search(pv_name, operation, line) ==
    Find(line, W_delete \o <<" ", "\"">> \o PvChars(pv_name) \o <<"\"", ":", " ">> \o OpChars(operation), 1) # 0

\* [i for i in logs if re.search(f'delete "{pv_name}": {operation}', i)]
DeletionMatching(logs, pv_name, operation) ==
    SelectSeq(logs, LAMBDA line : delete_re_search(pv_name, operation, line))

\* variant: an empty list of matching lines gives no error
FirstStampNoIndexError(this_year, stat, name, operation) ==
    IF stat = <<>> THEN Result("return", <<<<>>>>, NoExc)
    ELSE Result("return", <<YearChars(this_year) \o <<" ">> \o join(<<" ">>, Slice(split(stat[1], " "), 0, 2))>>, NoExc)

\* mon_day = " ".join(stat[0].split(" ")[0:2]); f"{this_year} {mon_day}"
FirstStamp(this_year, stat, name, operation) ==
    IF stat = <<>> THEN Result("raise", <<>>, Exc("IndexError", name, operation))
    ELSE Result("return", <<YearChars(this_year) \o <<" ">> \o join(<<" ">>, Slice(split(stat[1], " "), 0, 2))>>, NoExc)

\* datetime.datetime.strptime(stat, DATE_TIME_FORMAT) of a lookup's string
ParseStamp(r, name, operation) ==
    IF r.status = "raise" THEN r
    ELSE LET dt == strptime(r.val[1], DATE_TIME_FORMAT)
         IN  IF dt.ok THEN Result("return", <<dt>>, NoExc)
             ELSE Result("raise", <<>>, Exc("ValueError", name, operation))

\* the strings of the subjects of a list, up to the first one that fails
RECURSIVE AllStats(_, _, _, _)
AllStats(this_year, logs, names, operation) ==
    IF names = <<>> THEN Result("return", <<>>, NoExc)
    ELSE LET stat == FirstStamp(this_year, Matching(logs, names[1], operation), names[1], operation)
             rest == AllStats(this_year, logs, Tail(names), operation)
         IN  IF stat.status = "raise" THEN stat
             ELSE IF rest.status = "raise" THEN rest
             ELSE Result("return", stat.val \o rest.val, NoExc)

\* get_provision_time(interface, pvc_name, status): pvc_name is a string
\* (aslist = FALSE, names = <<name>>) or a list of PVC objects
get_provision_time(this_year, logs, aslist, names, status) ==
    LET operation == IF status = "end" THEN "succeeded" ELSE "started" IN
    IF ~aslist
    THEN ParseStamp(FirstStamp(this_year, Matching(logs, names[1], operation), names[1], operation),
                    names[1], operation)
    ELSE LET stats == AllStats(this_year, logs, names, operation)
             all_stats == sorted(stats.val)
         IN  IF stats.status = "raise" THEN stats
             ELSE IF all_stats = <<>> THEN Result("raise", <<>>, Exc("IndexError", "", operation))
             ELSE IF status = "end"
             THEN ParseStamp(Result("return", <<all_stats[Len(all_stats)]>>, NoExc), "", operation)
             ELSE ParseStamp(Result("return", <<all_stats[1]>>, NoExc), "", operation)

\* get_start_deletion_time(interface, pv_name)
get_start_deletion_time(this_year, logs, pv_name) ==
    ParseStamp(FirstStamp(this_year, DeletionMatching(logs, pv_name, "started"), pv_name, "started"),
               pv_name, "started")

\* get_end_deletion_time(interface, pv_name)
get_end_deletion_time(this_year, logs, pv_name) ==
    ParseStamp(FirstStamp(this_year, DeletionMatching(logs, pv_name, "succeeded"), pv_name, "succeeded"),
               pv_name, "succeeded")

\* the lists of PVC objects get_provision_time is given
SubjectLists == {<<>>, <<"pvc-a">>, <<"pvc-b">>, <<"pvc-a", "pvc-b">>, <<"pvc-b", "pvc-a">>}

LookupIn(fn, style, events, aslist, names, status) ==
    [called |-> TRUE, fn |-> fn, style |-> style, events |-> events,
     aslist |-> aslist, names |-> names, status |-> status]

LookupIdle ==
    [called |-> FALSE, fn |-> "none", style |-> "klog", events |-> <<>>,
     aslist |-> FALSE, names |-> <<>>, status |-> "start"]

LookupInit ==
    /\ l_in = LookupIdle
    /\ l_out = NoOut

\* one call of get_start_creation_time
CallGetStartCreationTime ==
    /\ ~l_in.called
    /\ \E style \in LogStyles, events \in LogSnapshots(CreationEvents),
          pvc_name \in SubjectNames, this_year \in Years :
        /\ l_in' = LookupIn("get_start_creation_time", style, events, FALSE, <<pvc_name>>, "start")
        /\ l_out' = get_start_creation_time(this_year, LogLines(style, events), pvc_name)

\* one call of get_end_creation_time
CallGetEndCreationTime ==
    /\ ~l_in.called
    /\ \E style \in LogStyles, events \in LogSnapshots(CreationEvents),
          pvc_name \in SubjectNames, this_year \in Years :
        /\ l_in' = LookupIn("get_end_creation_time", style, events, FALSE, <<pvc_name>>, "end")
        /\ l_out' = get_end_creation_time(this_year, LogLines(style, events), pvc_name)

\* one call of get_provision_time, for a string or for a list
CallGetProvisionTime ==
    /\ ~l_in.called
    /\ \E style \in LogStyles, events \in LogSnapshots(CreationEvents),
          aslist \in BOOLEAN, names \in SubjectLists, status \in {"start", "end"}, this_year \in Years :
        /\ aslist \/ Len(names) = 1
        /\ l_in' = LookupIn("get_provision_time", style, events, aslist, names, status)
        /\ l_out' = get_provision_time(this_year, LogLines(style, events), aslist, names, status)

\* one call of get_start_deletion_time
CallGetStartDeletionTime ==
    /\ ~l_in.called
    /\ \E style \in LogStyles, events \in LogSnapshots(DeletionEvents),
          pv_name \in PvNames, this_year \in Years :
        /\ l_in' = LookupIn("get_start_deletion_time", style, events, FALSE, <<pv_name>>, "start")
        /\ l_out' = get_start_deletion_time(this_year, DeletionLogLines(style, events), pv_name)

\* one call of get_end_deletion_time
CallGetEndDeletionTime ==
    /\ ~l_in.called
    /\ \E style \in LogStyles, events \in LogSnapshots(DeletionEvents),
          pv_name \in PvNames, this_year \in Years :
        /\ l_in' = LookupIn("get_end_deletion_time", style, events, FALSE, <<pv_name>>, "end")
        /\ l_out' = get_end_deletion_time(this_year, DeletionLogLines(style, events), pv_name)

\* the events of PVCs with similar names: pvc-ab and xpvc-a contain pvc-a
SimilarEvents ==
    {LogEvent(0, "pvc-a", "started"), LogEvent(5, "pvc-a", "succeeded"),
     LogEvent(1, "pvc-ab", "started"), LogEvent(2, "pvc-ab", "succeeded"),
     LogEvent(1, "xpvc-a", "started"), LogEvent(2, "xpvc-a", "succeeded")}

\* one call of get_start_creation_time while PVCs with similar names exist
CallGetStartCreationTimeSimilar ==
    /\ ~l_in.called
    /\ \E style \in LogStyles, events \in LogSnapshots(SimilarEvents),
          pvc_name \in PvNames, this_year \in Years :
        /\ l_in' = LookupIn("get_start_creation_time", style, events, FALSE, <<pvc_name>>, "start")
        /\ l_out' = get_start_creation_time(this_year, LogLines(style, events), pvc_name)

\* one call of get_end_creation_time while PVCs with similar names exist
CallGetEndCreationTimeSimilar ==
    /\ ~l_in.called
    /\ \E style \in LogStyles, events \in LogSnapshots(SimilarEvents),
          pvc_name \in PvNames, this_year \in Years :
        /\ l_in' = LookupIn("get_end_creation_time", style, events, FALSE, <<pvc_name>>, "end")
        /\ l_out' = get_end_creation_time(this_year, LogLines(style, events), pvc_name)

\* one call of get_provision_time for a string while PVCs with similar
\* names exist
CallGetProvisionTimeSimilar ==
    /\ ~l_in.called
    /\ \E style \in LogStyles, events \in LogSnapshots(SimilarEvents),
          pvc_name \in PvNames, status \in {"start", "end"}, this_year \in Years :
        /\ l_in' = LookupIn("get_provision_time", style, events, FALSE, <<pvc_name>>, status)
        /\ l_out' = get_provision_time(this_year, LogLines(style, events), FALSE, <<pvc_name>>, status)

\* "Creating content for snapshot"
W_creating ==
    <<"C", "r", "e", "a", "t", "i", "n", "g", " ", "c", "o", "n", "t", "e", "n", "t", " ",
      "f", "o", "r", " ", "s", "n", "a", "p", "s", "h", "o", "t">>

\* "readyToUse true"
W_ready == <<"r", "e", "a", "d", "y", "T", "o", "U", "s", "e", " ", "t", "r", "u", "e">>

SnapNames == {"snap-a", "snap-b"}

SnapChars(name) == <<"s", "n", "a", "p", "-">> \o (IF name = "snap-a" THEN <<"a">> ELSE <<"b">>)

\* what the snapshot controller and the csi-snapshotter log: snap-a is
\* created from second 0 to 2, snap-b from second 1 to 5
SnapEvents ==
    {LogEvent(0, "snap-a", "started"), LogEvent(2, "snap-a", "succeeded"),
     LogEvent(1, "snap-b", "started"), LogEvent(5, "snap-b", "succeeded")}

\* the text of the log line of a snapshot event
RenderSnap(style, e) ==
    StampChars(style) \o <<" ">> \o TimeChars(e.sec) \o <<" ">> \o W_dots \o <<" ">>
        \o (IF e.op = "started" THEN W_creating \o <<" ">> \o SnapChars(e.name)
            ELSE SnapChars(e.name) \o <<" ">> \o W_ready)

SnapLogLines(style, events) == [i \in DOMAIN events |-> RenderSnap(style, events[i])]

\* get_pattern_time(log, snapname, pattern): the date string of the first
\* line holding both, <<>> for None
RECURSIVE get_pattern_time(_, _, _, _)
get_pattern_time(this_year, log, snapname, pattern) ==
    IF log = <<>> THEN <<>>
    ELSE IF Find(log[1], SnapChars(snapname), 1) # 0 /\ Find(log[1], pattern, 1) # 0
    THEN <<YearChars(this_year) \o <<" ">> \o join(<<" ">>, Slice(split(log[1], " "), 0, 2))>>
    ELSE get_pattern_time(this_year, Tail(log), snapname, pattern)

SnapResult(status, val, exc, fetches) ==
    [status |-> status, val |-> val, exc |-> exc, fetches |-> fetches]

\* sorted(all_stats) for a list of strings and Nones: comparing None with
\* anything is a TypeError, and every element of a list of two or more is
\* compared
SortedOptional(all_stats) ==
    IF Len(all_stats) >= 2 /\ \E i \in DOMAIN all_stats : all_stats[i] = <<>>
    THEN [ok |-> FALSE, list |-> <<>>]
    ELSE IF Len(all_stats) = 1 THEN [ok |-> TRUE, list |-> all_stats]
    ELSE LET strs == sorted([j \in DOMAIN all_stats |-> all_stats[j][1]])
         IN  [ok |-> TRUE, list |-> [i \in DOMAIN strs |-> <<strs[i]>>]]

\* "if stat: return strptime(stat, DATE_TIME_FORMAT) else: return None"
SnapReturn(stat) ==
    IF stat = <<>> THEN SnapResult("return", <<PyNone>>, NoExc, 1)
    ELSE LET dt == strptime(stat[1], DATE_TIME_FORMAT)
         IN  IF dt.ok THEN SnapResult("return", <<dt>>, NoExc, 1)
             ELSE SnapResult("raise", <<>>, Exc("ValueError", "", ""), 1)

\* get_snapshot_time(interface, snap_name, status): snap_name is a string
\* (aslist = FALSE, names = <<name>>) or a list of snapshot objects
get_snapshot_time(this_year, logs, aslist, names, status) ==
    IF status \notin {"start", "end"} THEN SnapResult("return", <<PyNone>>, NoExc, 0)
    ELSE
    LET pattern == IF status = "start" THEN W_creating ELSE W_ready IN
    IF ~aslist THEN SnapReturn(get_pattern_time(this_year, logs, names[1], pattern))
    ELSE LET all_stats == SortedOptional([i \in DOMAIN names |->
                                            get_pattern_time(this_year, logs, names[i], pattern)])
         IN  IF ~all_stats.ok THEN SnapResult("raise", <<>>, Exc("TypeError", "", ""), 1)
             ELSE IF all_stats.list = <<>> THEN SnapResult("raise", <<>>, Exc("IndexError", "", ""), 1)
             ELSE IF status = "end" THEN SnapReturn(all_stats.list[Len(all_stats.list)])
             ELSE SnapReturn(all_stats.list[1])

\* the lists of snapshot objects get_snapshot_time is given
SnapLists == {<<>>, <<"snap-a">>, <<"snap-b">>, <<"snap-a", "snap-b">>, <<"snap-b", "snap-a">>}

\* one call of get_snapshot_time, for a string or for a list
CallGetSnapshotTime ==
    /\ ~l_in.called
    /\ \E style \in LogStyles, events \in LogSnapshots(SnapEvents), aslist \in BOOLEAN,
          names \in SnapLists, status \in {"start", "end", "begin"}, this_year \in Years :
        /\ aslist \/ Len(names) = 1
        /\ l_in' = LookupIn("get_snapshot_time", style, events, aslist, names, status)
        /\ l_out' = get_snapshot_time(this_year, SnapLogLines(style, events), aslist, names, status)

\* the caller has consumed the outcome
LookupExit ==
    /\ l_in.called
    /\ l_in' = LookupIdle
    /\ l_out' = NoOut

(***************************************************************************)
(* The bulk measurements measure_pvc_creation_time_bulk and                *)
(* measure_pv_deletion_time_bulk: fetch the provisioner logs, and while a  *)
(* name lacks a marker sleep, fetch again and count.                       *)
(*   k_pc       "idle", "checking" (in the while loop), "returned",        *)
(*              "raised"                                                   *)
(*   k_in       the call: kind, log style, list of names                   *)
(*   k_events   what the provisioner has logged so far                     *)
(*   k_logs     logs: the snapshot fetched last                            *)
(*   k_loop     loop_counter                                               *)
(*   k_seen     the snapshot the last completeness check looked at         *)
(*   k_checked  whether k_logs has been through the completeness check     *)
(*   k_out      the outcome                                                *)
(***************************************************************************)
VARIABLES k_pc, k_in, k_events, k_logs, k_loop, k_seen, k_checked, k_out

bulkVars == <<k_pc, k_in, k_events, k_logs, k_loop, k_seen, k_checked, k_out>>

\* "if loop_counter >= 6"
BULK_MAX_LOOPS == 6

BulkKinds == {"creation", "deletion"}

\* pvc_name_list / pv_name_list
BulkNameLists(kind) ==
    IF kind = "creation" THEN {<<>>, <<"pvc-a">>, <<"pvc-a", "pvc-b">>}
    ELSE {<<>>, <<"pvc-a">>, <<"pvc-a", "pvc-ab">>}

\* what the provisioner may log during a bulk measurement
BulkEvents(kind) ==
    IF kind = "creation"
    THEN {LogEvent(0, "pvc-a", "started"), LogEvent(2, "pvc-a", "succeeded"),
          LogEvent(1, "pvc-b", "started"), LogEvent(5, "pvc-b", "succeeded")}
    ELSE {LogEvent(0, "pvc-a", "started"), LogEvent(5, "pvc-a", "succeeded"),
          LogEvent(1, "pvc-ab", "started"), LogEvent(2, "pvc-ab", "succeeded")}

\* the fetched logs, split into lines
BulkLines(in, events) ==
    IF in.kind = "creation" THEN LogLines(in.style, events) ELSE DeletionLogLines(in.style, events)

\* the lines of a name and a marker
BulkMatching(kind, logs, name, operation) ==
    IF kind = "creation" THEN Matching(logs, name, operation)
    ELSE DeletionMatching(logs, name, operation)

\* variant: only the "started" lines are looked at
LacksDataStartOnly(start, end) == start = <<>>

\* "if not start or not end"
LacksData(start, end) == start = <<>> \/ end = <<>>

\* the names appended to no_data_list
no_data_list(kind, logs, names) ==
    SelectSeq(names, LAMBDA name : LacksData(BulkMatching(kind, logs, name, "started"),
                                             BulkMatching(kind, logs, name, "succeeded")))

BulkResult(status, val, exc, missing) ==
    [status |-> status, val |-> val, exc |-> exc, missing |-> missing]

\* the loop that fills pvc_dict / pv_dict; dict is the dictionary so far
RECURSIVE Durations(_, _, _, _, _)
Durations(this_year, kind, logs, names, dict) ==
    IF names = <<>> THEN BulkResult("return", <<dict>>, NoExc, <<>>)
    ELSE LET name == names[1]
             start_time == ParseStamp(FirstStamp(this_year, BulkMatching(kind, logs, name, "started"),
                                                 name, "started"), name, "started")
             end_time == ParseStamp(FirstStamp(this_year, BulkMatching(kind, logs, name, "succeeded"),
                                               name, "succeeded"), name, "succeeded")
         IN  IF start_time.status = "raise" THEN BulkResult("raise", <<>>, start_time.exc, <<>>)
             ELSE IF end_time.status = "raise" THEN BulkResult("raise", <<>>, end_time.exc, <<>>)
             ELSE Durations(this_year, kind, logs, Tail(names),
                            (name :> total_seconds(end_time.val[1], start_time.val[1])) @@ dict)

EmptyDict == [n \in {} |-> 0]

BulkIdleIn == [kind |-> "creation", style |-> "klog", names |-> <<>>]

BulkNoOut == BulkResult("none", <<>>, NoExc, <<>>)

BulkInit ==
    /\ k_pc = "idle"
    /\ k_in = BulkIdleIn
    /\ k_events = <<>>
    /\ k_logs = <<>>
    /\ k_loop = 0
    /\ k_seen = <<>>
    /\ k_checked = FALSE
    /\ k_out = BulkNoOut

\* entry of a bulk measurement up to "loop_counter = 0": the first fetch
BulkEnter(kind) ==
    /\ k_pc = "idle"
    /\ \E style \in LogStyles, names \in BulkNameLists(kind),
          events \in {<<>>} \cup DistinctSeqs(BulkEvents(kind), MaxBulkLines) :
        /\ k_in' = [kind |-> kind, style |-> style, names |-> names]
        /\ k_events' = events
        /\ k_logs' = events
    /\ k_pc' = "checking"
    /\ k_loop' = 0
    /\ k_seen' = <<>>
    /\ k_checked' = FALSE
    /\ k_out' = BulkNoOut

CallMeasurePvcCreationTimeBulk == BulkEnter("creation")

CallMeasurePvDeletionTimeBulk == BulkEnter("deletion")

\* the provisioner logs one more line while the measurement runs
BulkLogAppend ==
    /\ k_pc = "checking"
    /\ Len(k_events) < MaxBulkLines
    /\ \E e \in BulkEvents(k_in.kind) :
        /\ \A i \in DOMAIN k_events : k_events[i] # e
        /\ k_events' = Append(k_events, e)
    /\ UNCHANGED <<k_pc, k_in, k_logs, k_loop, k_seen, k_checked, k_out>>

\* one pass of "while True": the completeness check of logs, then either
\* clear, sleep, fetch again, count and possibly raise, or break and
\* compute the durations
BulkCheck ==
    /\ k_pc = "checking"
    /\ k_seen' = k_logs
    /\ LET missing == no_data_list(k_in.kind, BulkLines(k_in, k_logs), k_in.names) IN
       IF missing # <<>>
       THEN /\ k_logs' = k_events
            /\ k_checked' = FALSE
            /\ k_loop' = k_loop + 1
            /\ IF k_loop + 1 >= BULK_MAX_LOOPS
               THEN /\ k_pc' = "raised"
                    /\ k_out' = BulkResult("raise", <<>>, Exc("UnexpectedBehaviour", "", "no data in CSI logs"), missing)
               ELSE /\ k_pc' = "checking"
                    /\ k_out' = BulkNoOut
       ELSE /\ k_checked' = TRUE
            /\ \E this_year \in Years :
                 LET r == Durations(this_year, k_in.kind, BulkLines(k_in, k_logs), k_in.names, EmptyDict)
                 IN  /\ k_out' = r
                     /\ k_pc' = IF r.status = "return" THEN "returned" ELSE "raised"
            /\ UNCHANGED <<k_logs, k_loop>>
    /\ UNCHANGED <<k_in, k_events>>

\* the caller has consumed the outcome
BulkExit ==
    /\ k_pc \in {"returned", "raised"}
    /\ k_pc' = "idle"
    /\ k_in' = BulkIdleIn
    /\ k_events' = <<>>
    /\ k_logs' = <<>>
    /\ k_loop' = 0
    /\ k_seen' = <<>>
    /\ k_checked' = FALSE
    /\ k_out' = BulkNoOut

(***************************************************************************)
(* wait_for_pv_delete(pv_objs): the loop over the PVs, one collaborator    *)
(* call per step.                                                          *)
(*   p_pc     "idle", "running", "returned", "raised"                      *)
(*   p_in     pv_objs: a list of [name, policy]                            *)
(*   p_i      index of the PV the loop is at                               *)
(*   p_step   the call due next for that PV: "released", "delete",         *)
(*            "waitdel"                                                    *)
(*   p_log    the collaborator calls made so far: [op, pv, ok]             *)
(*   p_out    the outcome                                                  *)
(***************************************************************************)
VARIABLES p_pc, p_in, p_i, p_step, p_log, p_out

pvVars == <<p_pc, p_in, p_i, p_step, p_log, p_out>>

PvObjNames == {"pv-" \o ToString(i) : i \in 1..MaxItems}

\* spec.persistentVolumeReclaimPolicy; "none" when the field is absent
ReclaimPolicies == {"Retain", "Delete", "none"}

RECLAIM_POLICY_RETAIN == "Retain"

\* pv_objs: lists of different PVs, each with its reclaim policy
PvObjLists ==
    {<<>>} \cup
    UNION {{[i \in DOMAIN names |-> [name |-> names[i], policy |-> pol[i]]] :
               pol \in [DOMAIN names -> ReclaimPolicies]} :
           names \in DistinctSeqs(PvObjNames, MaxItems)}

\* variant: every PV is deleted by the function
IsRetainedAlways(pv_obj) == TRUE

\* "pv_obj.data.get("spec").get("persistentVolumeReclaimPolicy") ==
\* constants.RECLAIM_POLICY_RETAIN"
IsRetained(pv_obj) == pv_obj.policy = RECLAIM_POLICY_RETAIN

\* the first call of the loop body for a PV
FirstStep(pv_obj) == IF IsRetained(pv_obj) THEN "released" ELSE "waitdel"

\* the exception a failing collaborator call raises
StepError(step) ==
    IF step = "released" THEN "ResourceWrongStatusException"
    ELSE IF step = "delete" THEN "CommandFailed"
    ELSE "TimeoutError"

PvInit ==
    /\ p_pc = "idle"
    /\ p_in = <<>>
    /\ p_i = 0
    /\ p_step = "none"
    /\ p_log = <<>>
    /\ p_out = NoOut

\* wait_for_pv_delete(pv_objs) is entered
CallWaitForPvDelete ==
    /\ p_pc = "idle"
    /\ \E pv_objs \in PvObjLists :
        /\ p_in' = pv_objs
        /\ IF pv_objs = <<>>
           THEN /\ p_pc' = "returned"
                /\ p_i' = 0
                /\ p_step' = "none"
                /\ p_out' = Result("return", <<PyNone>>, NoExc)
           ELSE /\ p_pc' = "running"
                /\ p_i' = 1
                /\ p_step' = FirstStep(pv_objs[1])
                /\ p_out' = NoOut
    /\ p_log' = <<>>

\* the call due next is made and the loop moves on: after "released" comes
\* "delete", after "delete" comes "waitdel", after "waitdel" the next PV or
\* the end of the loop; a call that raises ends the function
PvStep(step) ==
    /\ p_pc = "running"
    /\ p_step = step
    /\ \E ok \in BOOLEAN :
        /\ p_log' = Append(p_log, [op |-> step, pv |-> p_in[p_i].name, ok |-> ok])
        /\ IF ~ok
           THEN /\ p_pc' = "raised"
                /\ p_out' = Result("raise", <<>>, Exc(StepError(step), p_in[p_i].name, ""))
                /\ UNCHANGED <<p_i, p_step>>
           ELSE IF step = "released"
           THEN /\ p_step' = "delete"
                /\ UNCHANGED <<p_pc, p_i, p_out>>
           ELSE IF step = "delete"
           THEN /\ p_step' = "waitdel"
                /\ UNCHANGED <<p_pc, p_i, p_out>>
           ELSE IF p_i < Len(p_in)
           THEN /\ p_i' = p_i + 1
                /\ p_step' = FirstStep(p_in[p_i + 1])
                /\ UNCHANGED <<p_pc, p_out>>
           ELSE /\ p_pc' = "returned"
                /\ p_out' = Result("return", <<PyNone>>, NoExc)
                /\ UNCHANGED <<p_i, p_step>>
    /\ UNCHANGED p_in

\* wait_for_resource_state(pv_obj, constants.STATUS_RELEASED)
PvWaitReleased == PvStep("released")

\* pv_obj.delete()
PvDelete == PvStep("delete")

\* pv_obj.ocp.wait_for_delete(resource_name=pv_obj.name, timeout=180)
PvWaitForDelete == PvStep("waitdel")

\* the caller has consumed the outcome
PvExit ==
    /\ p_pc \in {"returned", "raised"}
    /\ p_pc' = "idle"
    /\ p_in' = <<>>
    /\ p_i' = 0
    /\ p_step' = "none"
    /\ p_log' = <<>>
    /\ p_out' = NoOut

(***************************************************************************)
(* create_pods(pvc_objs, pod_factory, interface, pods_for_rwx, status,     *)
(* nodes): one pod_factory call per step.                                  *)
(*   c_pc     "idle", "running", "returned"                                *)
(*   c_in     [pvc_objs, pods_for_rwx, nodes]                              *)
(*   c_i      index of the PVC the loop is at                              *)
(*   c_rwx    pod_obj_rwx, the list the comprehension is building          *)
(*   c_pos    position of nodes_iter in the cycle                          *)
(*   c_calls  number of pod_factory calls made so far                      *)
(*   c_pods   pod_objs                                                     *)
(*   c_out    the outcome                                                  *)
(***************************************************************************)
VARIABLES c_pc, c_in, c_i, c_rwx, c_pos, c_calls, c_pods, c_out

podsVars == <<c_pc, c_in, c_i, c_rwx, c_pos, c_calls, c_pods, c_out>>

ACCESS_MODE_RWX == "ReadWriteMany"

PodAccessModes == {"ReadWriteMany", "ReadWriteOnce"}

VolumeModes == {"Block", "Filesystem"}

NodeNames == {"node-" \o ToString(i) : i \in 1..MaxNodes}

\* pvc_objs: lists of PVCs, each with its access mode and volume mode
PvcObjLists ==
    UNION {{[i \in 1..n |-> [name |-> "pvc-" \o ToString(i), access_mode |-> am[i],
                             volume_mode |-> vm[i]]] :
               am \in [1..n -> PodAccessModes], vm \in [1..n -> VolumeModes]} :
           n \in 0..MaxPvcs}

\* nodes: None and [] are both <<>> ("cycle(nodes) if nodes else None")
NodeLists == {<<>>} \cup DistinctSeqs(NodeNames, MaxNodes)

\* "next(nodes_iter) if nodes_iter else None"
NodeName(nodes, pos) == IF nodes = <<>> THEN "None" ELSE nodes[pos + 1]

\* the cycle after one next()
Advance(nodes, pos) == IF nodes = <<>> THEN 0 ELSE (pos + 1) % Len(nodes)

\* pod_factory(interface, pvc, status, node_name, pod_dict_path, raw_block_pv)
pod_factory(pvc_obj, node_name, seq) ==
    [pvc |-> pvc_obj.name, node_name |-> node_name,
     raw_block_pv |-> (pvc_obj.volume_mode = "Block"),
     pod_dict_path |-> IF pvc_obj.volume_mode = "Block" THEN "CSI_RBD_RAW_BLOCK_POD_YAML" ELSE "",
     created |-> seq]

PodsIdleIn == [pvc_objs |-> <<>>, pods_for_rwx |-> 1, nodes |-> <<>>]

PodsInit ==
    /\ c_pc = "idle"
    /\ c_in = PodsIdleIn
    /\ c_i = 0
    /\ c_rwx = <<>>
    /\ c_pos = 0
    /\ c_calls = 0
    /\ c_pods = <<>>
    /\ c_out = NoOut

\* create_pods(...) is entered
CallCreatePods ==
    /\ c_pc = "idle"
    /\ \E pvc_objs \in PvcObjLists, pods_for_rwx \in 0..MaxPodsForRwx, nodes \in NodeLists :
        /\ c_in' = [pvc_objs |-> pvc_objs, pods_for_rwx |-> pods_for_rwx, nodes |-> nodes]
        /\ IF pvc_objs = <<>>
           THEN /\ c_pc' = "returned"
                /\ c_i' = 0
                /\ c_out' = Result("return", <<<<>>>>, NoExc)
           ELSE /\ c_pc' = "running"
                /\ c_i' = 1
                /\ c_out' = NoOut
    /\ c_rwx' = <<>>
    /\ c_pos' = 0
    /\ c_calls' = 0
    /\ c_pods' = <<>>

\* one iteration of the comprehension "for _ in range(1, pods_for_rwx)" of
\* an RWX PVC
CreatePodRwx ==
    /\ c_pc = "running"
    /\ c_in.pvc_objs[c_i].access_mode = ACCESS_MODE_RWX
    /\ Len(c_rwx) < c_in.pods_for_rwx - 1
    /\ c_rwx' = Append(c_rwx, pod_factory(c_in.pvc_objs[c_i], NodeName(c_in.nodes, c_pos),
                                          c_calls + 1))
    /\ c_pos' = Advance(c_in.nodes, c_pos)
    /\ c_calls' = c_calls + 1
    /\ UNCHANGED <<c_pc, c_in, c_i, c_pods, c_out>>

\* "pod_objs.extend(pod_obj_rwx)" when the comprehension is over, then the
\* pod_factory call every PVC gets and "pod_objs.append(pod_obj)"; the loop
\* moves to the next PVC or the function returns pod_objs
CreatePodLast ==
    /\ c_pc = "running"
    /\ \/ c_in.pvc_objs[c_i].access_mode # ACCESS_MODE_RWX
       \/ Len(c_rwx) >= c_in.pods_for_rwx - 1
    /\ LET pod_objs == Append(c_pods \o c_rwx,
                              pod_factory(c_in.pvc_objs[c_i], NodeName(c_in.nodes, c_pos),
                                          c_calls + 1))
       IN  /\ c_pods' = pod_objs
           /\ IF c_i < Len(c_in.pvc_objs)
              THEN /\ c_i' = c_i + 1
                   /\ UNCHANGED <<c_pc, c_out>>
              ELSE /\ c_pc' = "returned"
                   /\ c_out' = Result("return", <<pod_objs>>, NoExc)
                   /\ UNCHANGED c_i
    /\ c_rwx' = <<>>
    /\ c_pos' = Advance(c_in.nodes, c_pos)
    /\ c_calls' = c_calls + 1
    /\ UNCHANGED c_in

\* the caller has consumed the outcome
PodsExit ==
    /\ c_pc = "returned"
    /\ c_pc' = "idle"
    /\ c_in' = PodsIdleIn
    /\ c_i' = 0
    /\ c_rwx' = <<>>
    /\ c_pos' = 0
    /\ c_calls' = 0
    /\ c_pods' = <<>>
    /\ c_out' = NoOut

(***************************************************************************)
(* create_unique_resource_name(resource_description, resource_type):       *)
(* successive calls with the same arguments.  Strings are sequences of     *)
(* characters.                                                             *)
(*   u_in     [resource_description, resource_type] of the calls made      *)
(*   u_uuids  uuid4().hex of every call, in call order                     *)
(*   u_names  the name every call returned, in call order                  *)
(***************************************************************************)
VARIABLES u_in, u_uuids, u_names

nameVars == <<u_in, u_uuids, u_names>>

\* len(uuid4().hex)
UUID_HEX_LEN == 32

\* "resource_description[:23]"
DESCRIPTION_CUT == 23

\* "name if len(name) < 40 else name[:40]"
NAME_CUT == 40

\* s[:n]
SliceTo(s, n) == IF Len(s) <= n THEN s ELSE SubSeq(s, 1, n)

Repeated(c, n) == [i \in 1..n |-> c]

\* resource_type: "t", "tt", ...
ResourceTypes == {Repeated("t", n) : n \in 1..MaxTypeLen}

\* resource_description: "", "d", "dd", ...
ResourceDescriptions == {Repeated("d", n) : n \in 0..MaxDescLen}

\* a version 4 uuid in hex: version digit 4, variant digit 8
UuidZero ==
    [i \in 1..UUID_HEX_LEN |-> IF i = 13 THEN "4" ELSE IF i = 17 THEN "8" ELSE "0"]

\* uuid4().hex: the zero uuid and the uuids differing from it in one digit,
\* the first, the twelfth or the last
UuidHexes == {UuidZero} \cup {[UuidZero EXCEPT ![p] = "f"] : p \in {1, 12, UUID_HEX_LEN}}

\* variant: the name is returned whole
create_unique_resource_nameUncut(resource_description, resource_type, uuid_hex) ==
    resource_type \o <<"-">> \o SliceTo(resource_description, DESCRIPTION_CUT)
        \o <<"-">> \o uuid_hex

\* create_unique_resource_name with uuid4().hex = uuid_hex
create_unique_resource_name(resource_description, resource_type, uuid_hex) ==
    LET name == resource_type \o <<"-">> \o SliceTo(resource_description, DESCRIPTION_CUT)
                    \o <<"-">> \o uuid_hex
    IN  IF Len(name) < NAME_CUT THEN name ELSE SliceTo(name, NAME_CUT)

NameIdleIn == [resource_description |-> <<>>, resource_type |-> <<>>]

NameInit ==
    /\ u_in = NameIdleIn
    /\ u_uuids = <<>>
    /\ u_names = <<>>

\* one call: the first call fixes the arguments, the later ones repeat them
CallCreateUniqueResourceName ==
    /\ Len(u_names) < MaxCalls
    /\ \E resource_description \in ResourceDescriptions, resource_type \in ResourceTypes,
          uuid_hex \in UuidHexes :
        /\ u_names # <<>> =>
              u_in = [resource_description |-> resource_description,
                      resource_type |-> resource_type]
        /\ u_in' = [resource_description |-> resource_description,
                    resource_type |-> resource_type]
        /\ u_uuids' = Append(u_uuids, uuid_hex)
        /\ u_names' = Append(u_names, create_unique_resource_name(resource_description,
                                                                  resource_type, uuid_hex))

\* the names are dropped
NamesForget ==
    /\ u_names # <<>>
    /\ u_in' = NameIdleIn
    /\ u_uuids' = <<>>
    /\ u_names' = <<>>

vars == <<waitVars, batchVars, deleteVars, samplerVars, retryVars, timingVars, volumeVars, lookupVars, bulkVars, pvVars, podsVars, nameVars>>

Init == WaitInit /\ BatchInit /\ DeleteInit /\ SamplerInit /\ RetryInit /\ TimingInit /\ VolumeInit /\ LookupInit /\ BulkInit /\ PvInit /\ PodsInit /\ NameInit

NextWait == (WaitCall \/ WaitExit) /\ UNCHANGED <<batchVars, deleteVars, samplerVars, retryVars, timingVars, volumeVars, lookupVars, bulkVars, pvVars, podsVars, nameVars>>

SpecWait == Init /\ [][NextWait]_vars

NextBatch ==
    /\ \/ CallCreatePodsParallel
       \/ CallCreateMultiplePvcParallel
       \/ SubmitCreate
       \/ ExitPool1
       \/ CollectCreated
       \/ SubmitWait
       \/ ExitPool2
       \/ CollectWaited
       \/ StartTask
       \/ RunCreatePod
       \/ RunCreatePvc
       \/ RunWait
    /\ UNCHANGED <<waitVars, deleteVars, samplerVars, retryVars, timingVars, volumeVars, lookupVars, bulkVars, pvVars, podsVars, nameVars>>

SpecBatch == Init /\ [][NextBatch]_vars

\* the main thread and every worker thread keep being scheduled
SpecBatchLive == Init /\ [][NextBatch]_vars /\ WF_vars(NextBatch)

NextDelete ==
    /\ \/ CallDeleteObjsParallel
       \/ StartDeleteThread
       \/ RunDelete
       \/ BackendRemoves
       \/ JoinDeleteThread
       \/ ReturnDeleteObjsParallel
    /\ UNCHANGED <<waitVars, batchVars, samplerVars, retryVars, timingVars, volumeVars, lookupVars, bulkVars, pvVars, podsVars, nameVars>>

SpecDelete == Init /\ [][NextDelete]_vars

NextSampler ==
    /\ \/ CallWaitForResourceCountChange
       \/ CallVerifyVolumeDeletedInBackend
       \/ CallWaitForCtPodRecovery
       \/ SampleTick
       \/ SampleTimeout
       \/ SampleExit
    /\ UNCHANGED <<waitVars, batchVars, deleteVars, retryVars, timingVars, volumeVars, lookupVars, bulkVars, pvVars, podsVars, nameVars>>

SpecSampler == Init /\ [][NextSampler]_vars

NextRetry ==
    /\ \/ CallValidatePvDelete
       \/ CallFetchUsedSize
       \/ CallRunCmdVerifyCliOutput
       \/ RetryAttempt
       \/ RetryExit
    /\ UNCHANGED <<waitVars, batchVars, deleteVars, samplerVars, timingVars, volumeVars, lookupVars, bulkVars, pvVars, podsVars, nameVars>>

SpecRetry == Init /\ [][NextRetry]_vars

NextTiming ==
    /\ \/ CallMeasurePvcCreationTime
       \/ LogAppend
       \/ GetStartCreationTime
       \/ GetEndCreationTime
       \/ TimingExit
    /\ UNCHANGED <<waitVars, batchVars, deleteVars, samplerVars, retryVars, volumeVars, lookupVars, bulkVars, pvVars, podsVars, nameVars>>

SpecTiming == Init /\ [][NextTiming]_vars

NextVolume ==
    /\ \/ VolumeCall
       \/ VolumeExit
    /\ UNCHANGED <<waitVars, batchVars, deleteVars, samplerVars, retryVars, timingVars, lookupVars, bulkVars, pvVars, podsVars, nameVars>>

SpecVolume == Init /\ [][NextVolume]_vars

NextLookup ==
    /\ \/ CallGetStartCreationTime
       \/ CallGetEndCreationTime
       \/ CallGetProvisionTime
       \/ CallGetStartDeletionTime
       \/ CallGetEndDeletionTime
       \/ LookupExit
    /\ UNCHANGED <<waitVars, batchVars, deleteVars, samplerVars, retryVars, timingVars, volumeVars, bulkVars, pvVars, podsVars, nameVars>>

SpecLookup == Init /\ [][NextLookup]_vars

NextSimilar ==
    /\ \/ CallGetStartCreationTimeSimilar
       \/ CallGetEndCreationTimeSimilar
       \/ CallGetProvisionTimeSimilar
       \/ LookupExit
    /\ UNCHANGED <<waitVars, batchVars, deleteVars, samplerVars, retryVars, timingVars, volumeVars, bulkVars, pvVars, podsVars, nameVars>>

SpecSimilar == Init /\ [][NextSimilar]_vars

NextSnapshot ==
    /\ \/ CallGetSnapshotTime
       \/ LookupExit
    /\ UNCHANGED <<waitVars, batchVars, deleteVars, samplerVars, retryVars, timingVars, volumeVars, bulkVars, pvVars, podsVars, nameVars>>

SpecSnapshot == Init /\ [][NextSnapshot]_vars

NextBulk ==
    /\ \/ CallMeasurePvcCreationTimeBulk
       \/ CallMeasurePvDeletionTimeBulk
       \/ BulkLogAppend
       \/ BulkCheck
       \/ BulkExit
    /\ UNCHANGED <<waitVars, batchVars, deleteVars, samplerVars, retryVars, timingVars, volumeVars, lookupVars, pvVars, podsVars, nameVars>>

SpecBulk == Init /\ [][NextBulk]_vars

\* a pass of the while loop, as the scheduler sees it: the measuring thread
\* checks logs and then either fetches again and goes on, or ends the call
BulkProgress ==
    /\ k_pc = "checking"
    /\ k_seen' = k_logs
    /\ UNCHANGED <<k_in, k_events>>
    /\ \/ /\ k_pc' = "checking"
          /\ k_loop' = k_loop + 1
          /\ k_logs' = k_events
          /\ k_checked' = FALSE
          /\ k_out' = BulkNoOut
       \/ /\ k_pc' \in {"returned", "raised"}
          /\ k_out'.status \in {"return", "raise"}
    /\ UNCHANGED <<waitVars, batchVars, deleteVars, samplerVars, retryVars, timingVars, volumeVars, lookupVars, pvVars, podsVars, nameVars>>

\* the measuring thread keeps running: every sleep ends
SpecBulkLive == Init /\ [][NextBulk]_vars /\ WF_vars(BulkProgress)

NextPv ==
    /\ \/ CallWaitForPvDelete
       \/ PvWaitReleased
       \/ PvDelete
       \/ PvWaitForDelete
       \/ PvExit
    /\ UNCHANGED <<waitVars, batchVars, deleteVars, samplerVars, retryVars, timingVars, volumeVars, lookupVars, bulkVars, podsVars, nameVars>>

SpecPv == Init /\ [][NextPv]_vars

NextPods ==
    /\ \/ CallCreatePods
       \/ CreatePodRwx
       \/ CreatePodLast
       \/ PodsExit
    /\ UNCHANGED <<waitVars, batchVars, deleteVars, samplerVars, retryVars, timingVars, volumeVars, lookupVars, bulkVars, pvVars, nameVars>>

SpecPods == Init /\ [][NextPods]_vars

NextName ==
    /\ \/ CallCreateUniqueResourceName
       \/ NamesForget
    /\ UNCHANGED <<waitVars, batchVars, deleteVars, samplerVars, retryVars, timingVars, volumeVars, lookupVars, bulkVars, pvVars, podsVars>>

SpecName == Init /\ [][NextName]_vars

(***************************************************************************)
(* Properties of wait_for_resource_state (checked under SpecWait).         *)
(***************************************************************************)
WaitProbe == wait_for_resource(w_in.obs, w_in.state, w_in.timeout)

ImmutableNames == {DEFAULT_STORAGECLASS_CEPHFS, DEFAULT_STORAGECLASS_RBD}

\* C1: a wait on the default CephFS or RBD storage class returns without a
\* single call of the probe and without a reload, whatever the target state,
\* the timeout and the behaviour of the backend.
C1_ImmutableShortCircuit ==
    (w_in.called /\ w_in.name \in ImmutableNames) =>
        /\ w_out.outcome = "return"
        /\ w_out.probeCalls = 0
        /\ w_out.reloadCalls = 0
        /\ w_out.describeCalls = 0

\* the RBD default class waited for "Running" with timeout 0 while the
\* backend would never report that state
C1_Witness ==
    /\ w_in.called
    /\ w_in.name = DEFAULT_STORAGECLASS_RBD
    /\ w_in.state = "Running"
    /\ w_in.timeout = 0
    /\ WaitProbe.out = "timeout"
    /\ w_out.outcome = "return"

\* C2: on a resource that is not immutable the wait returns normally only
\* after the probe reported the target state, and when the probe times out
\* it reloads the resource exactly once and raises
\* ResourceWrongStatusException carrying the name and the description.
C2_ReturnOrWrongStatus ==
    (w_in.called /\ w_in.name \notin ImmutableNames) =>
        /\ w_out.outcome = "return" =>
              (WaitProbe.out = "reached" /\ ~w_out.timedOut)
        /\ WaitProbe.out = "timeout" =>
              /\ w_out.reloadCalls = 1
              /\ w_out.outcome = "raise"
              /\ w_out.exc = Exc("ResourceWrongStatusException", w_in.name, w_in.cur)

\* C3: when the wait timed out and the diagnostic reload or describe fails,
\* the caller still gets the wrong-state / timeout error of the wait.
C3_DiagnosticFailureDoesNotMask ==
    (/\ w_in.called
     /\ w_in.name \notin ImmutableNames
     /\ WaitProbe.out = "timeout"
     /\ (~w_in.reloadOK \/ ~w_in.describeOK)) =>
        /\ w_out.outcome = "raise"
        /\ w_out.exc.type \in {"ResourceWrongStatusException", "TimeoutExpiredError"}

(***************************************************************************)
(* Properties of the batch create-and-wait calls (checked under SpecBatch).*)
(***************************************************************************)
Creations == {k \in DOMAIN b_tasks : b_tasks[k].wave = 1}
Waits == {k \in DOMAIN b_tasks : b_tasks[k].wave = 2}
RaisedCreations == {k \in Creations : b_tasks[k].status = "raise"}
FailedWaits ==
    {k \in Waits : b_tasks[k].status = "raise" \/ b_tasks[k].val = <<PyFalse>>}
AllCreated ==
    /\ Cardinality(Creations) = NumItems
    /\ \A k \in Creations : b_tasks[k].status = "ok"

\* C4: once the creation callable of any submitted item has raised, the call
\* never returns a handle list; when it ends, it ends by raising.
C4_CreationFailureRaises ==
    RaisedCreations # {} =>
        /\ b_pc # "returned"
        /\ b_out.status # "return"
        /\ b_pc \in {"returned", "raised"} => b_out.status = "raise"

\* two items, one creation raised, the other returned a handle
C4_Witness ==
    /\ b_pc = "raised"
    /\ NumItems = 2
    /\ Cardinality(RaisedCreations) = 1
    /\ \E k \in Creations : b_tasks[k].status = "ok" /\ b_tasks[k].made # {}
    /\ b_out.status = "raise"

\* C5: a normal return hands back one handle per submitted item (per PVC of
\* every access mode), each of them an object whose state-wait has returned
\* normally; the call ends in no other way than by this return or by raising.
C5_ReturnsAllWaitedOrRaises ==
    /\ b_out.status = "return" =>
          /\ b_pc = "returned"
          /\ Len(b_out.val) = NumItems * b_args.n
          /\ \A i \in DOMAIN b_out.val :
                /\ b_out.val[i].tag = "obj"
                /\ \E k \in Waits :
                      /\ b_tasks[k].arg = b_out.val[i]
                      /\ b_tasks[k].item = i
                      /\ b_tasks[k].st = "finished"
                      /\ b_tasks[k].status = "ok"
          /\ RaisedCreations = {}
          /\ FailedWaits = {}
    /\ b_pc = "returned" => b_out.status = "return"
    /\ b_pc = "raised" => b_out.status = "raise"

\* a batch of two access modes with two PVCs each has returned its 4 handles
C5_Witness ==
    /\ b_pc = "returned"
    /\ b_args.fn = "pvcs"
    /\ Len(b_out.val) = 4
    /\ Cardinality(Waits) = 4

\* C6: all creations succeeded and some state-wait failed: the call raises
\* TimeoutExpiredError.
C6_WaitFailureRaisesTimeout ==
    (b_pc \in {"returned", "raised"} /\ AllCreated /\ FailedWaits # {}) =>
        /\ b_out.status = "raise"
        /\ b_out.exc.type = "TimeoutExpiredError"

\* C7: the error raised for failed state-waits names every item whose
\* state-wait failed.
C7_ErrorNamesEveryFailedItem ==
    (b_pc = "raised" /\ AllCreated /\ FailedWaits # {}) =>
        \A k \in FailedWaits :
            b_tasks[k].arg.tag = "obj" => b_out.exc.name = b_tasks[k].arg.name

\* C8: when the call raises, everything its creation callables made is
\* still in the backend, so are the PVCs the pods were created for, and no
\* item was submitted twice to a wave.
C8_NoRollbackNoRetry ==
    b_pc = "raised" =>
        /\ \A k \in DOMAIN b_tasks : b_tasks[k].made \subseteq b_cluster
        /\ b_args.fn = "pods" =>
              {b_args.items[i] : i \in DOMAIN b_args.items} \subseteq b_cluster
        /\ \A j, k \in DOMAIN b_tasks :
              (b_tasks[j].wave = b_tasks[k].wave /\ b_tasks[j].item = b_tasks[k].item)
                  => j = k

\* the call raised although resources had been created
C8_Witness ==
    /\ b_pc = "raised"
    /\ \E k \in Creations : b_tasks[k].made # {}
    /\ \E k \in Creations : b_tasks[k].status = "raise" /\ b_tasks[k].made # {}

\* C9: a state-wait callable is not even submitted, let alone started,
\* before every creation callable has returned or raised.
C9_JoinBarrier ==
    Waits # {} =>
        /\ Cardinality(Creations) = NumItems
        /\ \A j \in Creations : b_tasks[j].st = "finished"

\* a state-wait is running after two creations that completed out of order
C9_Witness ==
    /\ NumItems = 2
    /\ Len(b_done) >= 2
    /\ b_done[1] = 2
    /\ \E k \in Waits : b_tasks[k].st = "running"

\* C10: the returned list is in submission order: the i-th pod is the one
\* created for pvc_list[i]; the PVCs of the i-th access mode come as a block
\* before those of the (i+1)-th.
C10_SubmissionOrder ==
    b_out.status = "return" =>
        /\ Len(b_out.val) = NumItems * b_args.n
        /\ \A i \in 1..NumItems : \A j \in 1..b_args.n :
              LET h == b_out.val[(i - 1) * b_args.n + j] IN
                /\ h.item = i
                /\ h.src = b_args.items[i]

\* the list was returned although the second creation completed first
C10_Witness ==
    /\ b_out.status = "return"
    /\ NumItems = 2
    /\ b_done[1] = 2
    /\ b_out.val[1].item = 1

\* C13: every batch create-and-wait call that was entered ends: it returns
\* the handle list or raises (checked under SpecBatchLive).
C13_BatchTerminates ==
    (b_pc # "idle") ~> (b_pc \in {"returned", "raised"})

\* the call has ended after a state-wait ran into its timeout
C13_Witness ==
    /\ b_pc = "raised"
    /\ \E k \in Waits : b_tasks[k].exc.type = "ResourceWrongStatusException"

(***************************************************************************)
(* Properties of delete_objs_parallel (checked under SpecDelete).          *)
(***************************************************************************)
FailedDeletes == {k \in DOMAIN d_threads : d_threads[k].exc # NoExc}

\* C11: an exception raised by the delete of an item reaches the caller at
\* the join, and True is returned only when every delete went through.
C11_DeleteFailureSurfaces ==
    (d_pc = "returned" /\ FailedDeletes # {}) =>
        ~(d_out.status = "return" /\ d_out.val = <<PyTrue>>)

\* C12: when delete_objs_parallel returns, delete was invoked exactly once
\* on every object of the list and every delete thread has terminated.
C12_DeleteOnceAndJoined ==
    d_pc = "returned" =>
        /\ Len(d_threads) = Len(d_objs)
        /\ d_joined = Len(d_objs)
        /\ \A k \in DOMAIN d_objs :
              /\ d_calls[k] = 1
              /\ d_threads[k].st = "done"

\* the call has returned while an object it deleted is still present in the
\* backend: it did not wait for the absent state
C12_Witness ==
    /\ d_pc = "returned"
    /\ Len(d_objs) = 2
    /\ \E k \in DOMAIN d_objs :
          /\ d_threads[k].exc = NoExc
          /\ d_objs[k] \in d_backend

(***************************************************************************)
(* Claims about the sampler-based waits.                                   *)
(***************************************************************************)
ReturnedTrue == s_pc = "returned" /\ s_out = [status |-> "return", val |-> <<PyTrue>>, exc |-> NoExc]

\* the last answer of the backend is one the consumer accepts
LastAnswerSatisfies ==
    \/ /\ s_args.fn = "count"
       /\ s_last.kind = "listed"
       /\ IF s_args.change_type = "increase"
          THEN s_last.n - s_args.previous_num >= s_args.min_difference
          ELSE s_args.previous_num - s_last.n >= s_args.min_difference
    \/ /\ s_args.fn = "volume"
       /\ \/ s_args.interface = "CephBlockPool" /\ s_last.kind = "rbd_not_found"
          \/ s_args.interface = "CephFileSystem" /\ s_last.kind = "cephfs_not_found"

\* C14: a probe whose first satisfying result comes on tick N with
\* N*interval < timeout makes the wait return that result (True) without a
\* timeout error after exactly N invocations (so at most N+1): the sampler
\* gives up only after a number of ticks K with K*interval >= timeout, tick
\* N is made at time (N-1)*interval, and the wait returns on the first
\* satisfying sample.
C14_SatisfyingTickReturns ==
    /\ LastAnswerSatisfies =>
        /\ ReturnedTrue
        /\ ~s_timedout
        /\ s_calls = s_sleeps + 1
        /\ s_elapsed = s_sleeps * s_args.interval
    /\ s_timedout => s_calls * s_args.interval >= s_args.timeout

C14_Witness ==
    /\ ReturnedTrue
    /\ LastAnswerSatisfies
    /\ s_args.fn = "count"
    /\ s_calls = 2
    /\ s_calls * s_args.interval < s_args.timeout

\* C15: with a timeout <= 0 the probe is invoked at most once, and exactly
\* once (without any sleep) before the timeout error is raised.
C15_NonPositiveTimeoutOneProbe ==
    (s_pc # "idle" /\ s_args.timeout <= 0) =>
        /\ s_calls <= 1
        /\ s_timedout => (s_calls = 1 /\ s_sleeps = 0)
        /\ (s_timedout /\ s_args.fn = "count") =>
              s_out = [status |-> "return", val |-> <<PyFalse>>, exc |-> NoExc]

C15_Witness ==
    /\ s_timedout
    /\ s_args.timeout <= 0
    /\ s_args.fn = "count"
    /\ s_calls = 1

LastAnswerTransient == s_last.kind \in {"list_failed", "no_tools_pod"}

LastAnswerNotTransient ==
    /\ s_args.fn = "volume"
    /\ s_last.kind \in {"rbd_not_found", "cephfs_not_found", "other_error"}
    /\ ~LastAnswerSatisfies

\* C16: a transient probe error does not end the wait (polling goes on, and
\* the wait ends by it only through the timeout); a probe error that is not
\* transient ends the wait with that error at its first occurrence, with no
\* sleep after the failing invocation and no timeout.
C16_TransientSwallowedOthersPropagate ==
    /\ LastAnswerTransient =>
        /\ s_pc = "sampling" \/ s_timedout
        /\ s_swallowed >= 1
    /\ LastAnswerNotTransient =>
        /\ s_pc = "raised"
        /\ s_out.status = "raise"
        /\ s_out.exc.type = "AssertionError"
        /\ ~s_timedout
        /\ s_calls = s_sleeps + 1
        /\ s_elapsed = s_sleeps * s_args.interval

C16_Witness ==
    /\ s_pc = "raised"
    /\ s_out.exc.type = "AssertionError"
    /\ LastAnswerNotTransient
    /\ s_swallowed = 1
    /\ s_calls = 2

(***************************************************************************)
(* Claims about the retried operations.                                    *)
(***************************************************************************)
\* C17: an exception outside the configured set leaves the retrier at the
\* attempt that raised it, with no sleep after it: fetch_used_size, retried
\* on UnexpectedBehaviour, ends with the CommandFailed of a failed command,
\* after one invocation and no sleep when the first attempt fails.
C17_OtherExceptionPropagatesAtOnce ==
    (r_fn = "fetch_used_size" /\ r_last.kind = "failed") =>
        /\ r_pc = "raised"
        /\ r_out.status = "raise"
        /\ r_out.exc.type = "CommandFailed"
        /\ r_sleeps = r_attempts - 1
        /\ r_slept = RETRY_DELAY * (r_attempts - 1)

C17_Witness ==
    /\ r_fn = "fetch_used_size"
    /\ r_pc = "raised"
    /\ r_out.exc.type = "CommandFailed"
    /\ r_attempts = 1
    /\ r_sleeps = 0
    /\ r_slept = 0

\* the value the last invocation returned, from the backend's answer
LastSuccessValue ==
    IF r_fn = "validate_pv_delete"
    THEN (IF r_last.kind = "not_found" THEN PyTrue ELSE PyNone)
    ELSE PyNum(r_last.n * 2500)

\* C18: a retried call that returns has returned the value of its last
\* invocation, after one sleep of the configured delay (backoff 1) between
\* every two invocations; a call decorated with tries=20, delay=10 may
\* return at every attempt up to the 20th, that is after 19 designated
\* failures and 19 sleeps of 10 seconds.
C18_SucceedsAfterFailures ==
    (r_pc = "returned" /\ r_fn # "run_cmd_verify_cli_output") =>
        /\ r_out.status = "return"
        /\ r_out.val = <<LastSuccessValue>>
        /\ r_attempts <= RETRY_TRIES
        /\ r_sleeps = r_attempts - 1
        /\ r_slept = RETRY_DELAY * r_sleeps

C18_Witness ==
    /\ r_pc = "returned"
    /\ r_fn = "validate_pv_delete"
    /\ r_out.val = <<PyTrue>>
    /\ r_attempts = RETRY_TRIES
    /\ r_sleeps = RETRY_TRIES - 1
    /\ r_slept = 190

\* C19: validate_pv_delete looks the PV up at most 20 times; it returns
\* True at the attempt whose lookup fails with CommandFailed; while the PV
\* is present and fewer than 20 attempts were made it goes on; after 20
\* attempts with the PV present the AssertionError of the 20th attempt is
\* what the caller gets.
C19_ValidatePvDeleteBounded ==
    (r_fn = "validate_pv_delete") =>
        /\ r_attempts <= 20
        /\ r_last.kind = "not_found" =>
              (r_pc = "returned" /\ r_out = [status |-> "return", val |-> <<PyTrue>>, exc |-> NoExc])
        /\ (r_last.kind = "present" /\ r_attempts < 20) => r_pc = "running"
        /\ (r_last.kind = "present" /\ r_attempts = 20) =>
              /\ r_pc = "raised"
              /\ r_out.status = "raise"
              /\ r_out.exc = Exc("AssertionError", "pv", "20")
        /\ r_pc = "raised" => (r_last.kind = "present" /\ r_attempts = 20)

C19_Witness ==
    /\ r_fn = "validate_pv_delete"
    /\ r_pc = "raised"
    /\ r_attempts = 20
    /\ r_sleeps = 19
    /\ r_out.exc.type = "AssertionError"

(***************************************************************************)
(* Claims about the creation-time measurement.                             *)
(***************************************************************************)
\* the events of the measured PVC with the given marker, in log order
EventsOf(op) == SelectSeq(t_events, LAMBDA e : e.name = t_name /\ e.op = op)

\* the log of the example: started at 10:00:00, succeeded at 10:00:05
ExampleEvents == <<LogEvent(0, "pvc-a", "started"), LogEvent(5, "pvc-a", "succeeded")>>

TimingDone == t_pc \in {"returned", "raised"}

FiveSeconds == [status |-> "return", val |-> <<PySeconds(5, 0)>>, exc |-> NoExc]

\* C20 as stated: for the two lines "Jan  5 10:00:00.000000 ... provision
\* ... pvc-a ... started" and "Jan  5 10:00:05.000000 ... provision ...
\* pvc-a ... succeeded" measure_pvc_creation_time("pvc-a") returns 5.0.
C20_ExampleLinesGiveFive ==
    (TimingDone /\ t_style = "syslog" /\ t_events = ExampleEvents /\ t_name = "pvc-a") =>
        t_out = FiveSeconds

\* C20 amended: for log lines that start with the klog stamp
\* ("I0105 10:00:05.000000 ...") measure_pvc_creation_time returns the
\* seconds from the first "provision ... started" line of the PVC to its
\* last "provision ... succeeded" line, 5.0 for the lines of the example
\* written with that stamp, and it returns whenever both lines are there;
\* it returns for no other stamp.
C20_DurationFromKlogLines ==
    /\ t_pc = "returned" =>
        /\ t_style = "klog"
        /\ EventsOf("started") # <<>>
        /\ EventsOf("succeeded") # <<>>
        /\ t_out = [status |-> "return", exc |-> NoExc,
                    val |-> <<PySeconds(EventsOf("succeeded")[Len(EventsOf("succeeded"))].sec
                                        - EventsOf("started")[1].sec, 0)>>]
    /\ (TimingDone /\ t_style = "klog" /\ t_events = ExampleEvents /\ t_name = "pvc-a") =>
        t_out = FiveSeconds
    /\ (t_pc = "raised" /\ t_style = "klog") =>
        /\ t_out.exc.type = "IndexError"
        /\ EventsOf(t_out.exc.desc) = <<>>

C20_Witness ==
    /\ t_pc = "returned"
    /\ t_style = "klog"
    /\ t_events = ExampleEvents
    /\ t_name = "pvc-a"
    /\ t_out = FiveSeconds

\* a direct call of the wait (not through wait_for_ct_pod_recovery)
DirectCountWait == s_args.fn = "count" /\ s_args.caller = "test"

ReturnedFalse == s_pc = "returned" /\ s_out = [status |-> "return", val |-> <<PyFalse>>, exc |-> NoExc]

\* C26: wait_for_resource_count_change returns True exactly when a sample
\* shows a count difference of at least min_difference in the direction of
\* change_type, and it does so at the first such sample (no tick follows a
\* satisfying sample, no timeout follows one); when the sampler times out
\* it returns False; it never raises.
C26_CountChangeTrueIffSampleShowsIt ==
    DirectCountWait =>
        /\ s_pc # "raised"
        /\ ReturnedTrue <=> LastAnswerSatisfies
        /\ s_pc = "returned" => (ReturnedTrue \/ ReturnedFalse)
        /\ ReturnedFalse <=> s_timedout
        /\ s_pc = "sampling" => ~LastAnswerSatisfies

C26_Witness ==
    /\ DirectCountWait
    /\ ReturnedFalse
    /\ s_timedout
    /\ s_args.change_type = "decrease"
    /\ s_calls = 2
    /\ s_last.kind = "listed"
    /\ s_last.n > s_args.previous_num

\* C27: verify_volume_deleted_in_backend returns True only if the last
\* probe reported the volume absent, and when the sampler times out it
\* returns False.
C27_VolumeDeletedNoFalsePositive ==
    s_args.fn = "volume" =>
        /\ ReturnedTrue => LastAnswerSatisfies
        /\ s_timedout => ReturnedFalse

\* C28: when get_admin_key() fails with a connection timeout and the wait
\* for a new tools pod times out, wait_for_ct_pod_recovery returns False.
C28_NoRecoveryReturnsFalse ==
    (s_args.caller = "wait_for_ct_pod_recovery" /\ s_timedout) => ReturnedFalse

\* the backend answered "not there" to a presence check of this pool kind
AnsweredAbsent(pool, env) ==
    \/ pool = "CephBlockPool" /\ env.kind = "rbd_not_found"
    \/ pool = "CephFilesystem" /\ env.kind = "cephfs_not_found"

\* C29: delete_volume_in_backend returns True only if the volume was seen
\* present before the delete command and seen absent after it; when the
\* pool CR is not found or the volume is absent at the first check it
\* returns False and no delete command is sent.
C29_DeleteVolumeTrueOnlyIfGone ==
    v_in.called =>
        /\ (v_out.status = "return" /\ v_out.val = <<PyTrue>>) =>
              /\ v_in.pool # "none"
              /\ v_in.env1.kind = "present"
              /\ AnsweredAbsent(v_in.pool, v_in.env2)
              /\ v_out.deletes = 1
        /\ (v_in.pool = "none" \/ AnsweredAbsent(v_in.pool, v_in.env1)) =>
              /\ v_out.status = "return"
              /\ v_out.val = <<PyFalse>>
              /\ v_out.deletes = 0

C29_Witness ==
    /\ v_in.called
    /\ v_in.pool = "CephFilesystem"
    /\ v_in.del.kind = "other_error"
    /\ v_out.status = "return"
    /\ v_out.val = <<PyTrue>>
    /\ v_out.deletes = 1

\* the seconds at which the log shows <op> for <name>
SecsOf(events, name, op) ==
    {events[i].sec : i \in {j \in DOMAIN events : events[j].name = name /\ events[j].op = op}}

SetMin(S) == CHOOSE x \in S : \A y \in S : x <= y

SetMax(S) == CHOOSE x \in S : \A y \in S : y <= x

\* the marker a lookup call asks for
RequestedOp == IF l_in.status = "end" THEN "succeeded" ELSE "started"

\* the datetime is 10:00:<sec> of the logged day
AtSecond(dt, sec) == dt.ok /\ dt.m = 1 /\ dt.d = 5 /\ dt.H = 10 /\ dt.M = 0 /\ dt.S = sec /\ dt.f = 0

LookupReturned == l_in.called /\ l_out.status = "return"

\* the seconds of the requested marker over all subjects of the call
BatchSecs ==
    UNION {SecsOf(l_in.events, l_in.names[i], RequestedOp) : i \in DOMAIN l_in.names}

\* C21: given a list of subjects, get_provision_time returns the earliest
\* "started" timestamp over all subjects (status start) and the latest
\* "succeeded" timestamp over all subjects (status end), whatever the order
\* of the subjects and of their lines.
C21_BatchEarliestStartLatestEnd ==
    (LookupReturned /\ l_in.fn = "get_provision_time" /\ l_in.aslist) =>
        AtSecond(l_out.val[1],
                 IF l_in.status = "start" THEN SetMin(BatchSecs) ELSE SetMax(BatchSecs))

\* C22: for a single subject every creation lookup returns the earliest
\* "started" marker as start time and the latest "succeeded" marker as end
\* time, also when a marker is repeated or the lines are not in
\* chronological order.
C22_SingleEarliestStartLatestEnd ==
    (LookupReturned /\ ~l_in.aslist
       /\ l_in.fn \in {"get_start_creation_time", "get_end_creation_time", "get_provision_time"}) =>
        LET secs == SecsOf(l_in.events, l_in.names[1], RequestedOp)
        IN  AtSecond(l_out.val[1], IF l_in.status = "start" THEN SetMin(secs) ELSE SetMax(secs))

\* C23: when the logs hold no line for a requested subject and marker, a
\* single-shot lookup raises IndexError and returns nothing.
C23_NoMatchRaisesIndexError ==
    (l_in.called /\ \E i \in DOMAIN l_in.names : SecsOf(l_in.events, l_in.names[i], RequestedOp) = {}) =>
        /\ l_out.status = "raise"
        /\ l_out.exc.type = "IndexError"
        /\ l_out.val = <<>>

C23_Witness ==
    /\ l_in.called
    /\ l_in.fn = "get_provision_time"
    /\ l_in.aslist
    /\ l_in.names = <<"pvc-a", "pvc-b">>
    /\ l_in.status = "end"
    /\ SecsOf(l_in.events, "pvc-a", "succeeded") # {}
    /\ SecsOf(l_in.events, "pvc-b", "succeeded") = {}
    /\ l_out.status = "raise"
    /\ l_out.exc = Exc("IndexError", "pvc-b", "succeeded")

DeletionLookup == l_in.called /\ l_in.fn \in {"get_start_deletion_time", "get_end_deletion_time"}

\* C25: a deletion lookup uses a line only if the quoted name on it is
\* exactly the requested PV name; lines of PVs whose names contain the
\* requested name are never used.
C25_QuotedNameMatchedExactly ==
    DeletionLookup =>
        /\ l_out.status = "return" =>
              \E i \in DOMAIN l_in.events :
                  /\ l_in.events[i].name = l_in.names[1]
                  /\ l_in.events[i].op = RequestedOp
                  /\ AtSecond(l_out.val[1], l_in.events[i].sec)
        /\ SecsOf(l_in.events, l_in.names[1], RequestedOp) = {} => l_out.status = "raise"

C25_Witness ==
    /\ DeletionLookup
    /\ l_in.names = <<"pvc-a">>
    /\ l_in.events = <<LogEvent(1, "pvc-ab", "started"), LogEvent(1, "xpvc-a", "started"),
                       LogEvent(0, "pvc-a", "started")>>
    /\ l_in.status = "start"
    /\ l_out.status = "return"
    /\ AtSecond(l_out.val[1], 0)

\* the requested names for which the snapshot lacks a marker
MissingNames(events) ==
    SelectSeq(k_in.names, LAMBDA n : SecsOf(events, n, "started") = {} \/ SecsOf(events, n, "succeeded") = {})

\* the second of the first line of <name> and <op> in the snapshot
FirstSec(events, name, op) ==
    events[CHOOSE i \in DOMAIN events :
              /\ events[i].name = name /\ events[i].op = op
              /\ \A j \in 1 .. (i - 1) : ~(events[j].name = name /\ events[j].op = op)].sec

NoDataRaised == k_pc = "raised" /\ k_out.exc.type = "UnexpectedBehaviour"

BulkLoopSafe ==
    /\ k_loop <= BULK_MAX_LOOPS
    /\ k_pc = "checking" => k_loop < BULK_MAX_LOOPS
    /\ k_pc = "raised" => k_out.exc.type \in {"UnexpectedBehaviour", "ValueError"}
    /\ NoDataRaised =>
          /\ k_loop = BULK_MAX_LOOPS
          /\ k_out.missing # <<>>
          /\ k_out.missing = MissingNames(k_seen)
    /\ k_pc = "returned" =>
          /\ MissingNames(k_logs) = <<>>
          /\ DOMAIN k_out.val[1] = {k_in.names[i] : i \in DOMAIN k_in.names}
          /\ \A i \in DOMAIN k_in.names :
                k_out.val[1][k_in.names[i]] =
                    PySeconds(FirstSec(k_logs, k_in.names[i], "succeeded")
                                - FirstSec(k_logs, k_in.names[i], "started"), 0)

\* C24: the bulk measurements fetch the logs again while a requested name
\* lacks a "started" or a "succeeded" line; after 6 re-fetch cycles they
\* raise UnexpectedBehaviour naming the missing items; the loop always
\* ends, and a duration is only ever reported from lines that exist.
C24_BulkLoopBoundedAndEnds ==
    /\ []BulkLoopSafe
    /\ (k_pc = "checking") ~> (k_pc \in {"returned", "raised"})

C24_Witness ==
    /\ NoDataRaised
    /\ k_in.names = <<"pvc-a", "pvc-b">>
    /\ k_loop = BULK_MAX_LOOPS
    /\ k_out.missing = <<"pvc-b">>
    /\ SecsOf(k_seen, "pvc-b", "succeeded") = {}

\* C30: UnexpectedBehaviour is raised only if the snapshot fetched last has
\* been checked and still lacks a marker for some requested name.
C30_LastSnapshotCheckedBeforeFailure ==
    NoDataRaised =>
        /\ k_checked
        /\ MissingNames(k_logs) # <<>>

(***************************************************************************)
(* Further properties of the batch calls (checked under SpecBatch).        *)
(***************************************************************************)
\* C31: in create_pods_parallel the futures inspected at the second join
\* are exactly the state-wait futures, one per created pod.
C31_SecondJoinInspectsWaitsOnly ==
    (b_args.fn = "pods" /\ b_pc = "collect2") =>
        /\ SecondJoinFutures(b_args.fn, b_tasks) = WaveTasks(b_tasks, 2)
        /\ Len(SecondJoinFutures(b_args.fn, b_tasks)) = Len(b_handles)

\* C32: no submitted task is cancelled: when the batch call raises, every
\* submitted task has ended (returned or raised), and after a failed
\* creation no state-wait was submitted or started.
C32_NoTaskCancelled ==
    /\ b_pc = "raised" =>
          /\ Len(WaveTasks(b_tasks, 1)) = NumItems
          /\ \A k \in DOMAIN b_tasks :
                b_tasks[k].st = "finished" /\ b_tasks[k].status \in {"ok", "raise"}
    /\ (\E k \in DOMAIN b_tasks : b_tasks[k].wave = 1 /\ b_tasks[k].status = "raise") =>
          WaveTasks(b_tasks, 2) = <<>>
    /\ b_pc \in {"collect2", "returned"} =>
          /\ Len(WaveTasks(b_tasks, 2)) = Len(b_handles)
          /\ \A k \in DOMAIN b_tasks : b_tasks[k].st = "finished"

C32_Witness ==
    /\ b_pc = "raised"
    /\ b_args.fn = "pods"
    /\ Len(b_tasks) = 2
    /\ b_tasks[1].status = "raise"
    /\ b_tasks[2].status = "ok"
    /\ b_tasks[2].made # {}
    /\ b_done = <<1, 2>>

\* C33: a creation lookup for a PVC uses lines of that PVC only: the time
\* returned is the time of a line whose PVC name is the requested name, and
\* without such a line nothing is returned.
C33_CreationLinesOfRequestedPvcOnly ==
    l_in.called =>
        /\ l_out.status = "return" =>
              \E i \in DOMAIN l_in.events :
                  /\ l_in.events[i].name = l_in.names[1]
                  /\ l_in.events[i].op = RequestedOp
                  /\ AtSecond(l_out.val[1], l_in.events[i].sec)
        /\ SecsOf(l_in.events, l_in.names[1], RequestedOp) = {} => l_out.status = "raise"

SnapshotCall == l_in.called /\ l_in.fn = "get_snapshot_time"

\* the marker a get_snapshot_time call asks for
SnapOp == IF l_in.status = "end" THEN "succeeded" ELSE "started"

SnapSecs == UNION {SecsOf(l_in.events, l_in.names[i], SnapOp) : i \in DOMAIN l_in.names}

\* C34: get_snapshot_time returns None without fetching logs for an invalid
\* status, returns None when a requested snapshot (the name, or a member of
\* the list) has no matching line, and otherwise in list mode returns the
\* earliest start / latest end over the listed snapshots.
C34_SnapshotTimeNoneWhenMissing ==
    SnapshotCall =>
        /\ l_in.status \notin {"start", "end"} =>
              /\ l_out.status = "return" /\ l_out.val = <<PyNone>>
              /\ l_out.fetches = 0
        /\ (/\ l_in.status \in {"start", "end"}
            /\ \E i \in DOMAIN l_in.names : SecsOf(l_in.events, l_in.names[i], SnapOp) = {}) =>
              l_out.status = "return" /\ l_out.val = <<PyNone>>
        /\ (l_in.aslist /\ l_out.status = "return" /\ l_out.val # <<PyNone>>) =>
              AtSecond(l_out.val[1], IF l_in.status = "start" THEN SetMin(SnapSecs) ELSE SetMax(SnapSecs))

\* the calls wait_for_pv_delete is expected to make for a list of PVs
RECURSIVE ExpectedPvCalls(_)
ExpectedPvCalls(pv_objs) ==
    IF pv_objs = <<>> THEN <<>>
    ELSE (IF pv_objs[1].policy = "Retain"
          THEN <<[op |-> "released", pv |-> pv_objs[1].name],
                 [op |-> "delete", pv |-> pv_objs[1].name],
                 [op |-> "waitdel", pv |-> pv_objs[1].name]>>
          ELSE <<[op |-> "waitdel", pv |-> pv_objs[1].name]>>)
         \o ExpectedPvCalls(Tail(pv_objs))

\* C35: wait_for_pv_delete handles the PVs in list order, one at a time:
\* Retain PVs get wait-for-Released, delete, wait-for-delete; other PVs only
\* wait-for-delete; a failing call is the last call made.
C35_PvsHandledInOrder ==
    LET expected == ExpectedPvCalls(p_in) IN
    /\ Len(p_log) <= Len(expected)
    /\ \A k \in DOMAIN p_log :
          /\ p_log[k].op = expected[k].op
          /\ p_log[k].pv = expected[k].pv
          /\ k < Len(p_log) => p_log[k].ok
    /\ p_pc = "returned" => (Len(p_log) = Len(expected) /\ \A k \in DOMAIN p_log : p_log[k].ok)
    /\ p_pc = "raised" <=> (p_log # <<>> /\ ~p_log[Len(p_log)].ok)
    /\ p_pc = "running" => Len(p_log) < Len(expected)

C35_Witness ==
    /\ p_pc = "raised"
    /\ Len(p_in) = 2
    /\ p_in[1].policy = "Delete"
    /\ p_in[2].policy = "Retain"
    /\ Len(p_log) = 3
    /\ p_log[3].op = "delete"
    /\ p_out.exc.type = "CommandFailed"

CliCall == r_fn = "run_cmd_verify_cli_output"

\* C36: run_cmd_verify_cli_output is invoked again only after the command
\* failed; a successful command with a missing string returns False on that
\* attempt; the command runs at most 10 times.
C36_CliRetriesOnlyOnCommandFailure ==
    CliCall =>
        /\ r_attempts <= CLI_RETRY_TRIES
        /\ (r_pc = "running" /\ r_attempts > 0) => (r_last.kind = "failed" /\ r_sleeps = r_attempts)
        /\ r_pc \in {"returned", "raised"} => r_sleeps = r_attempts - 1
        /\ r_last.kind = "missing" => (r_pc = "returned" /\ r_out = Result("return", <<PyFalse>>, NoExc))
        /\ r_last.kind = "all_found" => (r_pc = "returned" /\ r_out = Result("return", <<PyTrue>>, NoExc))
        /\ r_pc = "raised" =>
              /\ r_attempts = CLI_RETRY_TRIES
              /\ r_out.exc = Exc("CommandFailed", "", ToString(CLI_RETRY_TRIES))

C36_Witness ==
    /\ CliCall
    /\ r_pc = "returned"
    /\ r_attempts = 3
    /\ r_sleeps = 2
    /\ r_slept = 2 * CLI_RETRY_DELAY
    /\ r_last.kind = "missing"
    /\ r_out.val = <<PyFalse>>

\* the number of pods the PVC is to get
PodsWanted(pvc_obj, pods_for_rwx) ==
    IF pvc_obj.access_mode = "ReadWriteMany" THEN pods_for_rwx ELSE 1

RECURSIVE WantedOwners(_, _)
\* the PVC of every pod to be created, in creation order
WantedOwners(pvc_objs, pods_for_rwx) ==
    IF pvc_objs = <<>> THEN <<>>
    ELSE [k \in 1..PodsWanted(Head(pvc_objs), pods_for_rwx) |-> Head(pvc_objs).name]
         \o WantedOwners(Tail(pvc_objs), pods_for_rwx)

\* the node of the k-th pod created
WantedNode(nodes, k) == IF nodes = <<>> THEN "None" ELSE nodes[((k - 1) % Len(nodes)) + 1]

\* C37: create_pods returns, for each PVC in list order, pods_for_rwx pods
\* when the PVC is RWX and one pod otherwise, in creation order, the k-th
\* pod created being on the k-th node of the cycle over the nodes list.
C37_PodsPerPvcAndNodesRoundRobin ==
    (c_pc = "returned") =>
        LET pod_objs == c_out.val[1]
            owners == WantedOwners(c_in.pvc_objs, c_in.pods_for_rwx)
        IN  /\ Len(pod_objs) = Len(owners)
            /\ \A k \in 1..Len(pod_objs) :
                /\ pod_objs[k].pvc = owners[k]
                /\ pod_objs[k].created = k
                /\ pod_objs[k].node_name = WantedNode(c_in.nodes, k)

\* C38: every name create_unique_resource_name returns has at most 40
\* characters, and two calls with the same arguments and different uuids
\* return different names.
C38_NamesShortAndUnique ==
    \A i, j \in DOMAIN u_names :
        /\ Len(u_names[i]) <= 40
        /\ (u_uuids[i] # u_uuids[j]) => (u_names[i] # u_names[j])

====
